---- MODULE Spec2Model ----
(***************************************************************************)
(* Verification model of doin-core.                                        *)
(*                                                                         *)
(* Part I   PaymentChannelManager (models/payment_channel.py)              *)
(* Part II  QuorumManager        (models/quorum.py)                        *)
(* Part III CommitRevealManager  (models/commit_reveal.py)                 *)
(* Part IV  BalanceTracker       (models/coin.py)                          *)
(* Part V   distribute_block_reward (models/coin.py)                       *)
(* Part VI  FinalityManager      (consensus/finality.py)                   *)
(* Part VII ProofOfOptimization  (consensus/proof_of_optimization.py)      *)
(* Part VIII FeeMarket           (models/fee_market.py)                    *)
(* Part IX  ForkChoiceRule       (consensus/fork_choice.py)                *)
(* Part X   DifficultyController (consensus/difficulty.py)                 *)
(* Part XI  TaskQueue            (models/task.py)                          *)
(*                                                                         *)
(* Amounts (deposit, balances, payments) are Python floats in the source.  *)
(* Here they are integers counting quanta of 1e-10 coin, so that the       *)
(* tolerance 1e-10 of dispute() is exactly DisputeEps = 1 quantum.  Fees   *)
(* and payouts, which multiply by settlement_fee_fraction, are kept as     *)
(* numerators over SettlementFeeDen so that no rounding is introduced.     *)
(* time.time() is the variable now; it is read once per handler call.      *)
(***************************************************************************)
EXTENDS Integers, Sequences, FiniteSets, TLC

(***************************************************************************)
(* Bounds of the model                                                     *)
(***************************************************************************)
MaxTime == 3
MaxNonce == 2
MaxMinted == 2
MaxBlockIndex == 3
MaxChain == 3
MaxHeight == 3
MaxRecorded == 2
MaxBlocks == 2
MaxTxId == 3
MaxBurned == 4
MaxDifficultyBlocks == 4

\* Parties open channels with each other; every peer may call the manager
Parties == {"alice", "bob"}
Peers == {"alice", "bob", "carol"}
ChannelIds == {"c1"}

(***************************************************************************)
(* ChannelConfig: the configuration instance the manager is built with.   *)
(***************************************************************************)
MinDeposit == 2
MaxDeposit == 2
DefaultExpiry == 1
DisputePeriod == 1
MaxChannelsPerPeer == 2
SettlementFeeNum == 1
SettlementFeeDen == 1000
DisputeEps == 1

Deposits == (MinDeposit - 1)..(MaxDeposit + 1)
Amounts == (0 - 1)..(MaxDeposit + 1)
Expiries == 0..1

VARIABLES
    now,             \* time.time()
    channels,        \* PaymentChannelManager._channels: id -> PaymentChannel
    channel_keys,    \* insertion order of _channels (dict iteration order)
    peer_channels,   \* PaymentChannelManager._peer_channels
    total_locked,    \* _total_locked
    total_settled,   \* _total_settled
    total_fees,      \* _total_fees, numerator over SettlementFeeDen
    ret,             \* the last call and what it returned
    wpc,             \* position of a pay()/dispute() call run statement by statement
    wframe,          \* its arguments
    observed,        \* what a concurrent reader last saw of a channel
    pending,         \* QuorumManager._pending: optimae_id -> QuorumState
    qret,            \* the last QuorumManager call and what it returned
    commitments,     \* CommitRevealManager._commitments: hash -> Commitment
    cret,            \* the last CommitRevealManager call and what it returned
    revealed_hashes, \* the hashes for which process_reveal has returned True
    balances,        \* BalanceTracker._balances
    nonces,          \* BalanceTracker._nonces
    total_minted,    \* BalanceTracker._total_minted
    bret,            \* the last BalanceTracker call and what it returned
    coinbase,        \* the last distribute_block_reward call and its result
    chain,           \* the chain given to BalanceTracker.rebuild_from_chain
    checkpoints,     \* FinalityManager._checkpoints
    fret,            \* the last FinalityManager call and what it returned
    threshold,            \* ConsensusState.threshold
    last_block_time,      \* ConsensusState.last_block_time
    pending_increments,   \* ConsensusState.pending_increments
    pending_transactions, \* ConsensusState.pending_transactions
    domains,              \* ProofOfOptimization._domains: id -> weight
    recorded,             \* number of Transaction objects made so far
    blocks,               \* the blocks made so far, genesis first
    pret,                 \* the last ProofOfOptimization call and its result
    base_fee,         \* FeeMarket._base_fee
    mempool,          \* FeeMarket._mempool
    rate_tracker,     \* FeeMarket._rate_tracker
    optimae_tracker,  \* FeeMarket._optimae_tracker
    admitted,         \* how many submissions check_rate_limit admitted, by
                      \* peer, kind and time
    taken,            \* the transactions handed out by get_block_transactions
    arrivals,         \* the ids in the mempool, in the order they entered it
    mret,             \* the last FeeMarket call and what it returned
    staked,           \* FeeMarket._staked: optimae_id -> staked amount
    total_burned,     \* FeeMarket._total_burned
    open_stake,       \* the stake last recorded for each id and not resolved
    scored_candidates, \* ForkChoiceRule._candidates, in the order of the dict
    sret,             \* the last ForkChoiceRule call and what it returned
    difficulty_state, \* DifficultyController.state
    epoch_threshold,  \* the threshold at the start of the current epoch
    dret,             \* the last DifficultyController call
    tasks,            \* TaskQueue.tasks: task id -> task
    tret,             \* the last TaskQueue call and what it returned
    claimers          \* each evaluator's place in a concurrent claim

chanVars == <<channels, channel_keys, peer_channels, total_locked,
              total_settled, total_fees>>
concVars == <<wpc, wframe, observed>>
quorumVars == <<pending, qret>>
commitVars == <<commitments, cret, revealed_hashes>>
coinVars == <<balances, nonces, total_minted, bret>>
rewardVars == <<coinbase>>
rebuildVars == <<chain>>
finalityVars == <<checkpoints, fret>>
pooVars == <<threshold, last_block_time, pending_increments,
             pending_transactions, domains, recorded, blocks, pret>>
feeVars == <<base_fee, mempool, rate_tracker, optimae_tracker, admitted,
             taken, arrivals, mret>>
stakeVars == <<staked, total_burned, open_stake>>
forkVars == <<scored_candidates, sret>>
diffVars == <<difficulty_state, epoch_threshold, dret>>
taskVars == <<tasks, tret, claimers>>
afterDiff == <<taskVars>>
afterFork == <<diffVars, afterDiff>>
afterStake == <<forkVars, afterFork>>
afterFee == <<stakeVars, afterStake>>
afterPoo == <<feeVars, afterFee>>
afterFinality == <<pooVars, afterPoo>>
laterVars == <<rewardVars, rebuildVars, finalityVars, afterFinality>>
earlierVars == <<chanVars, ret, concVars, quorumVars, commitVars, coinVars>>
vars == <<now, channels, channel_keys, peer_channels, total_locked,
          total_settled, total_fees, ret, wpc, wframe, observed, pending, qret,
          commitments, cret, revealed_hashes,
          balances, nonces, total_minted, bret, coinbase, chain,
          checkpoints, fret,
          threshold, last_block_time, pending_increments,
          pending_transactions, domains, recorded, blocks, pret,
          base_fee, mempool, rate_tracker, optimae_tracker, admitted, taken,
          arrivals, mret, staked, total_burned, open_stake,
          scored_candidates, sret, difficulty_state, epoch_threshold, dret,
          tasks, tret, claimers>>

Abs(x) == IF x < 0 THEN 0 - x ELSE x

NoUpdate == [nonce |-> 0 - 1, sender_balance |-> 0, receiver_balance |-> 0]

\* PaymentUpdate(channel_id, nonce, sender_balance, receiver_balance)
PaymentUpdate(n, sb, rb) ==
    [nonce |-> n, sender_balance |-> sb, receiver_balance |-> rb]

\* PaymentUpdate.total
UpdateTotal(u) == u.sender_balance + u.receiver_balance

\* PaymentChannel(...) as constructed by open_channel, after __post_init__
PaymentChannel(s, r, d, exp) ==
    [sender_id |-> s, receiver_id |-> r, deposit |-> d, state |-> "open",
     expires_at |-> exp, dispute_period |-> DisputePeriod,
     sender_balance |-> d, receiver_balance |-> 0, nonce |-> 0,
     latest_update |-> NoUpdate, dispute_deadline |-> 0, disputed_by |-> ""]

\* PaymentChannel.is_active
is_active(ch) == ch.state = "open"

\* PaymentChannel.is_expired, with time.time() = t
is_expired(ch, t) == ch.expires_at > 0 /\ t > ch.expires_at

\* PaymentChannel.total_paid
total_paid(ch) == ch.deposit - ch.sender_balance

\* self._peer_channels.get(p, [])
PeerChannelsOf(pc, p) == IF p \in DOMAIN pc THEN pc[p] ELSE <<>>

\* self._peer_channels.setdefault(p, []).append(cid)
AppendPeerChannel(pc, p, cid) ==
    IF p \in DOMAIN pc
    THEN [pc EXCEPT ![p] = Append(@, cid)]
    ELSE pc @@ (p :> <<cid>>)

Ret(op, ok, err) ==
    [op |-> op, ok |-> ok, err |-> err, cid |-> "", peer |-> "", amt |-> 0,
     n |-> 0, out |-> <<>>]

\* the settlement dict built by _settle
Settlement(cid, ch) ==
    [channel_id |-> cid, sender_id |-> ch.sender_id,
     receiver_id |-> ch.receiver_id,
     sender_refund |-> ch.sender_balance,
     receiver_payout |-> ch.receiver_balance * SettlementFeeDen
                          - ch.receiver_balance * SettlementFeeNum,
     fee |-> ch.receiver_balance * SettlementFeeNum,
     nonce |-> ch.nonce, total_paid |-> total_paid(ch)]

\* _settle that leaves the deposit in total_locked
SettleInLocked(m, cid) ==
    LET ch == m.channels[cid] IN
    [channels |-> [m.channels EXCEPT ![cid].state = "closed"],
     total_locked |-> m.total_locked,
     total_settled |-> m.total_settled + total_paid(ch),
     total_fees |-> m.total_fees + ch.receiver_balance * SettlementFeeNum,
     out |-> Append(m.out, Settlement(cid, ch))]

\* _settle applied to channel cid of manager state m; m.out collects results
SettleIn(m, cid) ==
    LET ch == m.channels[cid] IN
    [channels |-> [m.channels EXCEPT ![cid].state = "closed"],
     total_locked |-> m.total_locked - ch.deposit,
     total_settled |-> m.total_settled + total_paid(ch),
     total_fees |-> m.total_fees + ch.receiver_balance * SettlementFeeNum,
     out |-> Append(m.out, Settlement(cid, ch))]

MgrState ==
    [channels |-> channels, total_locked |-> total_locked,
     total_settled |-> total_settled, total_fees |-> total_fees, out |-> <<>>]

SetMgr(m) ==
    /\ channels' = m.channels
    /\ total_locked' = m.total_locked
    /\ total_settled' = m.total_settled
    /\ total_fees' = m.total_fees

\* DisputeDue with a deadline that must be strictly passed
DisputeDueLate(ch, t) ==
    /\ ch.state = "disputed"
    /\ ch.dispute_deadline > 0
    /\ t > ch.dispute_deadline

\* the condition under which resolve_disputes settles a channel
DisputeDue(ch, t) ==
    /\ ch.state = "disputed"
    /\ ch.dispute_deadline > 0
    /\ t >= ch.dispute_deadline

\* the loop of resolve_disputes over list(self._channels.values())
RECURSIVE ResolveLoop(_, _, _)
ResolveLoop(m, keys, t) ==
    IF keys = <<>> THEN m
    ELSE LET cid == Head(keys)
             m2 == IF DisputeDue(m.channels[cid], t) THEN SettleIn(m, cid) ELSE m
         IN ResolveLoop(m2, Tail(keys), t)

\* the loop of cleanup_expired over list(self._channels.values())
RECURSIVE CleanupLoop(_, _, _)
CleanupLoop(m, keys, t) ==
    IF keys = <<>> THEN m
    ELSE LET cid == Head(keys)
             ch == m.channels[cid]
             m2 == IF is_active(ch) /\ is_expired(ch, t) THEN SettleIn(m, cid) ELSE m
         IN CleanupLoop(m2, Tail(keys), t)

(***************************************************************************)
(* PaymentChannelManager operations, each a whole call                     *)
(***************************************************************************)
\* the error open_channel returns, "" when it accepts
OpenError(cid, s, r, d) ==
    IF d < MinDeposit THEN "below minimum"
    ELSE IF d > MaxDeposit THEN "above maximum"
    ELSE IF cid \in DOMAIN channels THEN "already exists"
    ELSE IF s = r THEN "yourself"
    ELSE IF Len(PeerChannelsOf(peer_channels, s)) >= MaxChannelsPerPeer
         THEN "too many channels"
    ELSE ""

open_channel(cid, s, r, d, expiry) ==
    LET err == OpenError(cid, s, r, d)
        exp == now + (IF expiry # 0 THEN expiry ELSE DefaultExpiry)
    IN
    /\ wpc = "idle"
    /\ IF err # ""
       THEN /\ ret' = Ret("open_channel", FALSE, err)
            /\ UNCHANGED chanVars
       ELSE /\ channels' = channels @@ (cid :> PaymentChannel(s, r, d, exp))
            /\ channel_keys' = Append(channel_keys, cid)
            /\ peer_channels' =
                 AppendPeerChannel(AppendPeerChannel(peer_channels, s, cid), r, cid)
            /\ total_locked' = total_locked + d
            /\ ret' = [Ret("open_channel", TRUE, "") EXCEPT !.cid = cid]
            /\ UNCHANGED <<total_settled, total_fees>>
    /\ UNCHANGED <<now, concVars, quorumVars, commitVars, coinVars, laterVars>>

\* PayError without the check of the caller
PayErrorAnyCaller(cid, amount, caller) ==
    IF cid \notin DOMAIN channels THEN "not found"
    ELSE IF ~is_active(channels[cid]) THEN "not active"
    ELSE IF is_expired(channels[cid], now) THEN "expired"
    ELSE IF amount <= 0 THEN "not positive"
    ELSE IF amount > channels[cid].sender_balance THEN "insufficient"
    ELSE ""

\* the error pay returns, "" when it accepts
PayError(cid, amount, caller) ==
    IF cid \notin DOMAIN channels THEN "not found"
    ELSE IF ~is_active(channels[cid]) THEN "not active"
    ELSE IF is_expired(channels[cid], now) THEN "expired"
    ELSE IF caller # channels[cid].sender_id THEN "only sender"
    ELSE IF amount <= 0 THEN "not positive"
    ELSE IF amount > channels[cid].sender_balance THEN "insufficient"
    ELSE ""

\* the channel after the balance update of pay
PayUpdate(ch, amount) ==
    LET sb == ch.sender_balance - amount
        rb == ch.receiver_balance + amount
        n == ch.nonce + 1
    IN [ch EXCEPT !.sender_balance = sb, !.receiver_balance = rb, !.nonce = n,
                  !.latest_update = PaymentUpdate(n, sb, rb)]

pay(cid, amount, caller) ==
    LET err == PayError(cid, amount, caller) IN
    /\ wpc = "idle"
    /\ IF err # ""
       THEN /\ ret' = Ret("pay", FALSE, err)
            /\ UNCHANGED chanVars
       ELSE /\ channels[cid].nonce < MaxNonce
            /\ channels' = [channels EXCEPT ![cid] = PayUpdate(@, amount)]
            /\ ret' = [Ret("pay", TRUE, "") EXCEPT !.cid = cid, !.peer = caller,
                                                   !.amt = amount]
            /\ UNCHANGED <<channel_keys, peer_channels, total_locked,
                           total_settled, total_fees>>
    /\ UNCHANGED <<now, concVars, quorumVars, commitVars, coinVars, laterVars>>

\* CloseError without the check of the closed state
CloseErrorReclose(cid, closer) ==
    IF cid \notin DOMAIN channels THEN "not found"
    ELSE IF closer \notin {channels[cid].sender_id, channels[cid].receiver_id}
         THEN "only participants"
    ELSE ""

\* the error close_channel returns, "" when it settles
CloseError(cid, closer) ==
    IF cid \notin DOMAIN channels THEN "not found"
    ELSE IF channels[cid].state = "closed" THEN "already closed"
    ELSE IF closer \notin {channels[cid].sender_id, channels[cid].receiver_id}
         THEN "only participants"
    ELSE ""

close_channel(cid, closer) ==
    LET err == CloseError(cid, closer) IN
    /\ wpc = "idle"
    /\ IF err # ""
       THEN /\ ret' = Ret("close_channel", FALSE, err)
            /\ UNCHANGED chanVars
       ELSE LET m == SettleIn(MgrState, cid) IN
            /\ SetMgr(m)
            /\ ret' = [Ret("close_channel", TRUE, "") EXCEPT !.cid = cid,
                          !.peer = closer, !.out = m.out]
            /\ UNCHANGED <<channel_keys, peer_channels>>
    /\ UNCHANGED <<now, concVars, quorumVars, commitVars, coinVars, laterVars>>

\* the error dispute returns, "" when it accepts
DisputeError(cid, disputer, update) ==
    IF cid \notin DOMAIN channels THEN "not found"
    ELSE IF disputer \notin {channels[cid].sender_id, channels[cid].receiver_id}
         THEN "only participants"
    ELSE IF channels[cid].state = "closed" THEN "already closed"
    ELSE IF update.nonce <= channels[cid].nonce THEN "not newer"
    ELSE IF Abs(UpdateTotal(update) - channels[cid].deposit) > DisputeEps
         THEN "totals mismatch"
    ELSE ""

\* the channel after an accepted dispute at time t
DisputeUpdate(ch, disputer, update, t) ==
    [ch EXCEPT !.state = "disputed",
               !.sender_balance = update.sender_balance,
               !.receiver_balance = update.receiver_balance,
               !.nonce = update.nonce,
               !.latest_update = update,
               !.dispute_deadline = t + ch.dispute_period,
               !.disputed_by = disputer]

dispute(cid, disputer, update) ==
    LET err == DisputeError(cid, disputer, update) IN
    /\ wpc = "idle"
    /\ IF err # ""
       THEN /\ ret' = Ret("dispute", FALSE, err)
            /\ UNCHANGED chanVars
       ELSE /\ channels' = [channels EXCEPT
                              ![cid] = DisputeUpdate(@, disputer, update, now)]
            /\ ret' = [Ret("dispute", TRUE, "") EXCEPT !.cid = cid,
                                                       !.peer = disputer]
            /\ UNCHANGED <<channel_keys, peer_channels, total_locked,
                           total_settled, total_fees>>
    /\ UNCHANGED <<now, concVars, quorumVars, commitVars, coinVars, laterVars>>

resolve_disputes ==
    LET m == ResolveLoop(MgrState, channel_keys, now) IN
    /\ wpc = "idle"
    /\ SetMgr(m)
    /\ ret' = [Ret("resolve_disputes", TRUE, "") EXCEPT !.out = m.out,
                                                        !.n = Len(m.out)]
    /\ UNCHANGED <<now, channel_keys, peer_channels, concVars, quorumVars, commitVars, coinVars, laterVars>>

cleanup_expired ==
    LET m == CleanupLoop(MgrState, channel_keys, now) IN
    /\ wpc = "idle"
    /\ SetMgr(m)
    /\ ret' = [Ret("cleanup_expired", TRUE, "") EXCEPT !.n = Len(m.out)]
    /\ UNCHANGED <<now, channel_keys, peer_channels, concVars, quorumVars, commitVars, coinVars, laterVars>>

\* the clock advances between calls
Tick ==
    /\ now < MaxTime
    /\ now' = now + 1
    /\ UNCHANGED <<chanVars, ret, concVars, quorumVars, commitVars, coinVars, laterVars>>

Updates ==
    {PaymentUpdate(n, sb, rb) : n \in 0..MaxNonce,
                                sb \in 0..MaxDeposit,
                                rb \in 0..MaxDeposit}

OpenChannel == \E cid \in ChannelIds, s \in Parties, r \in Parties, d \in Deposits,
                  e \in Expiries : open_channel(cid, s, r, d, e)
Pay == \E cid \in ChannelIds, a \in Amounts, p \in Peers : pay(cid, a, p)
CloseChannel == \E cid \in ChannelIds, p \in Peers : close_channel(cid, p)
Dispute == \E cid \in ChannelIds, p \in Peers, u \in Updates : dispute(cid, p, u)

ChanInit ==
    /\ now = 1
    /\ channels = << >>
    /\ channel_keys = << >>
    /\ peer_channels = << >>
    /\ total_locked = 0
    /\ total_settled = 0
    /\ total_fees = 0
    /\ ret = Ret("init", TRUE, "")
    /\ wpc = "idle"
    /\ wframe = << >>
    /\ observed = << >>

Next ==
    \/ OpenChannel
    \/ Pay
    \/ CloseChannel
    \/ Dispute
    \/ resolve_disputes
    \/ cleanup_expired
    \/ Tick

(***************************************************************************)
(* open_channel alone, over several channel ids                            *)
(***************************************************************************)
OpenChannelIds == {"c1", "c2", "c3"}

OpenMany == \E cid \in OpenChannelIds, s \in Peers, r \in Peers, d \in Deposits,
               e \in Expiries : open_channel(cid, s, r, d, e)

NextOpen == OpenMany \/ Tick

(***************************************************************************)
(* The life of two channels between the same two peers: opened, disputed,  *)
(* closed by a participant, by resolve_disputes or by cleanup_expired      *)
(***************************************************************************)
LockedChannelIds == {"c1", "c2"}

LockedUpdates ==
    {PaymentUpdate(n, 0, d) : n \in 1..MaxNonce, d \in {MinDeposit, MaxDeposit}}

OpenLocked ==
    \E cid \in LockedChannelIds, d \in {MinDeposit, MaxDeposit}, e \in Expiries :
        open_channel(cid, "alice", "bob", d, e)
CloseLocked ==
    \E cid \in LockedChannelIds, p \in {"alice", "carol"} : close_channel(cid, p)
DisputeLocked ==
    \E cid \in LockedChannelIds, u \in LockedUpdates : dispute(cid, "bob", u)

NextLocked ==
    \/ OpenLocked
    \/ CloseLocked
    \/ DisputeLocked
    \/ resolve_disputes
    \/ cleanup_expired
    \/ Tick

(***************************************************************************)
(* pay() run statement by statement by one writer, with a reader that may  *)
(* look at a channel between any two statements.  The source takes no lock *)
(* (payment_channel.py has none), so every interleaving is possible.       *)
(***************************************************************************)
\* pay, lines 209-223: the checks
PayCheck(cid, amount, caller) ==
    LET err == PayError(cid, amount, caller) IN
    /\ wpc = "idle"
    /\ IF err # ""
       THEN /\ ret' = Ret("pay", FALSE, err)
            /\ UNCHANGED <<wpc, wframe>>
       ELSE /\ channels[cid].nonce < MaxNonce
            /\ wpc' = "pay_226"
            /\ wframe' = [cid |-> cid, amount |-> amount, caller |-> caller]
            /\ UNCHANGED ret
    /\ UNCHANGED <<now, chanVars, observed, quorumVars, commitVars, coinVars, laterVars>>

\* pay, line 226: channel.sender_balance -= amount
PayDebit ==
    /\ wpc = "pay_226"
    /\ channels' = [channels EXCEPT
                      ![wframe.cid].sender_balance = @ - wframe.amount]
    /\ wpc' = "pay_227"
    /\ UNCHANGED <<now, channel_keys, peer_channels, total_locked,
                   total_settled, total_fees, ret, wframe, observed, quorumVars, commitVars, coinVars, laterVars>>

\* pay, line 227: channel.receiver_balance += amount
PayCredit ==
    /\ wpc = "pay_227"
    /\ channels' = [channels EXCEPT
                      ![wframe.cid].receiver_balance = @ + wframe.amount]
    /\ wpc' = "pay_228"
    /\ UNCHANGED <<now, channel_keys, peer_channels, total_locked,
                   total_settled, total_fees, ret, wframe, observed, quorumVars, commitVars, coinVars, laterVars>>

\* pay, line 228: channel.nonce += 1
PayNonce ==
    /\ wpc = "pay_228"
    /\ channels' = [channels EXCEPT ![wframe.cid].nonce = @ + 1]
    /\ wpc' = "pay_230"
    /\ UNCHANGED <<now, channel_keys, peer_channels, total_locked,
                   total_settled, total_fees, ret, wframe, observed, quorumVars, commitVars, coinVars, laterVars>>

\* pay, lines 230-238: record the update and return it
PayRecord ==
    LET ch == channels[wframe.cid] IN
    /\ wpc = "pay_230"
    /\ channels' = [channels EXCEPT ![wframe.cid].latest_update =
                      PaymentUpdate(ch.nonce, ch.sender_balance,
                                    ch.receiver_balance)]
    /\ ret' = [Ret("pay", TRUE, "") EXCEPT !.cid = wframe.cid,
                  !.peer = wframe.caller, !.amt = wframe.amount]
    /\ wpc' = "idle"
    /\ wframe' = << >>
    /\ UNCHANGED <<now, channel_keys, peer_channels, total_locked,
                   total_settled, total_fees, observed, quorumVars, commitVars, coinVars, laterVars>>

\* a reader: get_channel(cid) and a look at its fields
Read(cid) ==
    /\ cid \in DOMAIN channels
    /\ observed' = channels[cid]
    /\ UNCHANGED <<now, chanVars, ret, wpc, wframe, quorumVars, commitVars, coinVars, laterVars>>

PayBegin == \E cid \in ChannelIds, a \in Amounts, p \in Peers : PayCheck(cid, a, p)
Reader == \E cid \in ChannelIds : Read(cid)

NextConc ==
    \/ OpenChannel
    \/ PayBegin
    \/ PayDebit
    \/ PayCredit
    \/ PayNonce
    \/ PayRecord
    \/ Reader

(***************************************************************************)
(* Part II  QuorumManager (models/quorum.py)                               *)
(*                                                                         *)
(* Performances are integers counting hundredths (PerfScale per 1.0); a    *)
(* median is kept doubled, so that the mean of two middle votes is exact.  *)
(* Fractions (tolerance, quorum_fraction) are numerator/denominator pairs. *)
(* sha256(...).hexdigest() is the function Digest on small codes.          *)
(***************************************************************************)
MaxEligible == 3

Evaluators == {"alice", "bob", "carol"}
Optimizers == {"alice", "dave"}
OptimaeIds == {"o1"}
Tips == {"t1", "t2"}
Perfs == {0, 100, 104}
Reported == {100, 200}

\* QuorumConfig: the configuration instance the manager is built with
MinEvaluators == 2
MaxWaitSeconds == 1
QuorumFractionNum == 67
QuorumFractionDen == 100
ToleranceNum == 1
ToleranceDen == 20
PerfScale == 100

\* string order of the peer ids, used when tuples (hash, id) are compared
PeerCode == [alice |-> 1, bob |-> 2, carol |-> 3, dave |-> 4]
TipCode == [t1 |-> 1, t2 |-> 2]
OidCode == [o1 |-> 1]

Min(a, b) == IF a <= b THEN a ELSE b

\* hashlib.sha256(f"{a}:{b}".encode()).hexdigest(), on codes
Digest(a, b) == (3 * a * a + 5 * b * b + 7 * a * b + a + 2 * b + 1) % 11

\* candidates = [e for e in eligible_evaluators if e != optimizer_id],
\* without the exclusion
CandidatesAll(eligible, optimizer) == eligible

\* candidates = [e for e in eligible_evaluators if e != optimizer_id]
Candidates(eligible, optimizer) ==
    SelectSeq(eligible, LAMBDA e : e # optimizer)

\* the order of the tuples (h, c) that scored.sort() sorts by
ScoredLess(x, y) ==
    \/ x[1] < y[1]
    \/ x[1] = y[1] /\ PeerCode[x[2]] < PeerCode[y[2]]

RECURSIVE InsertScored(_, _)
InsertScored(x, sorted) ==
    IF sorted = << >> THEN <<x>>
    ELSE IF ScoredLess(Head(sorted), x)
         THEN <<Head(sorted)>> \o InsertScored(x, Tail(sorted))
         ELSE <<x>> \o sorted

RECURSIVE SortedScored(_)
SortedScored(scored) ==
    IF scored = << >> THEN << >>
    ELSE InsertScored(Head(scored), SortedScored(Tail(scored)))

\* scored.sort() left out: the list stays in the order of the candidates
SortScoredNone(scored) == scored

\* scored.sort()
SortScored(scored) == SortedScored(scored)

\* the list select_evaluators returns
Selected(eligible, optimizer, tip, oid) ==
    LET candidates == Candidates(eligible, optimizer)
        k == Min(MinEvaluators, Len(candidates))
        seed == Digest(TipCode[tip], OidCode[oid])
        scored == [i \in 1..Len(candidates) |->
                     <<Digest(seed, PeerCode[candidates[i]]), candidates[i]>>]
        sorted == SortScored(scored)
    IN [i \in 1..k |-> sorted[i][2]]

QuorumState(oid, optimizer, reported, required) ==
    [optimae_id |-> oid, domain_id |-> "d1", optimizer_id |-> optimizer,
     reported_performance |-> reported, required_evaluators |-> required,
     votes |-> << >>, decided |-> FALSE, accepted |-> FALSE,
     median_performance |-> << >>]

\* QuorumState.has_quorum
has_quorum(st) ==
    IF st.required_evaluators = << >> THEN FALSE
    ELSE Len(st.votes) >= Len(st.required_evaluators)

\* QuorumState.voter_ids
voter_ids(st) == {st.votes[i].evaluator_id : i \in 1..Len(st.votes)}

SeqRange(s) == {s[i] : i \in 1..Len(s)}

QRet(op) ==
    [op |-> op, oid |-> "", optimizer |-> "", tip |-> "", eligible |-> << >>,
     evaluator |-> "", perf |-> 0, replaced |-> FALSE, out |-> << >>]

select_evaluators(oid, optimizer, reported, eligible, tip) ==
    LET selected == Selected(eligible, optimizer, tip, oid)
        r == [QRet("select_evaluators") EXCEPT !.oid = oid,
                 !.optimizer = optimizer, !.tip = tip, !.eligible = eligible,
                 !.perf = reported, !.replaced = oid \in DOMAIN pending,
                 !.out = selected]
    IN
    /\ qret' = r
    /\ IF Len(Candidates(eligible, optimizer)) = 0
       THEN UNCHANGED pending
       ELSE pending' =
              [o \in DOMAIN pending \cup {oid} |->
                  IF o = oid THEN QuorumState(oid, optimizer, reported, selected)
                  ELSE pending[o]]
    /\ UNCHANGED <<now, chanVars, ret, concVars, commitVars, coinVars, laterVars>>

\* whether add_vote records the vote
VoteRecordedAgain(oid, evaluator) ==
    /\ oid \in DOMAIN pending
    /\ ~pending[oid].decided
    /\ evaluator \in SeqRange(pending[oid].required_evaluators)

VoteRecorded(oid, evaluator) ==
    /\ oid \in DOMAIN pending
    /\ ~pending[oid].decided
    /\ evaluator \in SeqRange(pending[oid].required_evaluators)
    /\ evaluator \notin voter_ids(pending[oid])

add_vote(oid, evaluator, perf) ==
    LET r == [QRet("add_vote") EXCEPT !.oid = oid, !.evaluator = evaluator]
    IN
    /\ IF VoteRecorded(oid, evaluator)
       THEN LET st == [pending[oid] EXCEPT !.votes =
                          Append(@, [evaluator_id |-> evaluator,
                                     verified_performance |-> perf])]
            IN /\ pending' = [pending EXCEPT ![oid] = st]
               /\ qret' = [r EXCEPT !.perf = perf,
                              !.out = IF has_quorum(st) THEN <<st>> ELSE << >>]
       ELSE /\ UNCHANGED pending
            /\ qret' = r
    /\ UNCHANGED <<now, chanVars, ret, concVars, commitVars, coinVars, laterVars>>

\* statistics.median(performances), doubled
RECURSIVE InsertInt(_, _)
InsertInt(x, sorted) ==
    IF sorted = << >> THEN <<x>>
    ELSE IF Head(sorted) < x
         THEN <<Head(sorted)>> \o InsertInt(x, Tail(sorted))
         ELSE <<x>> \o sorted

RECURSIVE SortInts(_)
SortInts(s) ==
    IF s = << >> THEN << >> ELSE InsertInt(Head(s), SortInts(Tail(s)))

Median2(performances) ==
    LET sorted == SortInts(performances)
        n == Len(sorted)
    IN IF n % 2 = 1 THEN 2 * sorted[(n + 1) \div 2]
       ELSE sorted[n \div 2] + sorted[n \div 2 + 1]

\* divergence of v from the median <= tolerance, as evaluate_quorum computes
\* it: relative to |median| when |median| > 1e-10, absolute otherwise
WithinTolerance(v, median2) ==
    IF median2 # 0
    THEN Abs(2 * v - median2) * ToleranceDen <= ToleranceNum * Abs(median2)
    ELSE Abs(v) * ToleranceDen <= ToleranceNum * PerfScale

\* the QuorumResult of evaluate_quorum on a state with votes
QuorumResult(st) ==
    LET performances == [i \in 1..Len(st.votes) |->
                            st.votes[i].verified_performance]
        median2 == Median2(performances)
        agreements == [e \in voter_ids(st) |->
                         \E i \in 1..Len(st.votes) :
                            /\ st.votes[i].evaluator_id = e
                            /\ WithinTolerance(st.votes[i].verified_performance,
                                               median2)]
        agree_count == Cardinality({e \in voter_ids(st) : agreements[e]})
        enough == agree_count * QuorumFractionDen
                     >= QuorumFractionNum * Len(st.votes)
        report_matches == WithinTolerance(st.reported_performance, median2)
        accepted == enough /\ report_matches
    IN [accepted |-> accepted, median2 |-> <<median2>>,
        agree_count |-> agree_count, vote_count |-> Len(st.votes),
        agreements |-> agreements,
        reason |-> IF accepted THEN "accepted"
                   ELSE IF ~enough THEN "quorum disagreement"
                   ELSE "report diverges from median"]

NoResult(reason) ==
    [accepted |-> FALSE, median2 |-> << >>, agree_count |-> 0,
     vote_count |-> 0, agreements |-> << >>, reason |-> reason]

evaluate_quorum(oid) ==
    LET r == [QRet("evaluate_quorum") EXCEPT !.oid = oid] IN
    /\ IF oid \notin DOMAIN pending
       THEN /\ qret' = [r EXCEPT !.out = NoResult("not found")]
            /\ UNCHANGED pending
       ELSE IF pending[oid].votes = << >>
       THEN /\ qret' = [r EXCEPT !.out = NoResult("no votes")]
            /\ UNCHANGED pending
       ELSE LET res == QuorumResult(pending[oid]) IN
            /\ pending' = [pending EXCEPT
                             ![oid].median_performance = res.median2,
                             ![oid].decided = TRUE,
                             ![oid].accepted = res.accepted]
            /\ qret' = [r EXCEPT !.out = res]
    /\ UNCHANGED <<now, chanVars, ret, concVars, commitVars, coinVars, laterVars>>

cleanup_decided ==
    LET to_remove == {o \in DOMAIN pending : pending[o].decided} IN
    /\ pending' = [o \in DOMAIN pending \ to_remove |-> pending[o]]
    /\ qret' = [QRet("cleanup_decided") EXCEPT !.perf = Cardinality(to_remove)]
    /\ UNCHANGED <<now, chanVars, ret, concVars, commitVars, coinVars, laterVars>>

RECURSIVE SeqsUpTo(_, _)
SeqsUpTo(S, n) ==
    IF n = 0 THEN {<< >>}
    ELSE LET shorter == SeqsUpTo(S, n - 1)
         IN shorter \cup {Append(q, x) : q \in shorter, x \in S}

\* eligible_evaluators: every list of distinct evaluators up to MaxEligible
EligibleLists ==
    {el \in SeqsUpTo(Evaluators, MaxEligible) :
        \A i, j \in 1..Len(el) : el[i] = el[j] => i = j}

SelectEvaluators ==
    \E oid \in OptimaeIds, opt \in Optimizers, rep \in Reported,
       el \in EligibleLists, tip \in Tips :
        select_evaluators(oid, opt, rep, el, tip)
AddVote == \E oid \in OptimaeIds, e \in Evaluators \cup Optimizers, v \in Perfs :
              add_vote(oid, e, v)
EvaluateQuorum == \E oid \in OptimaeIds : evaluate_quorum(oid)

QuorumInit ==
    /\ pending = << >>
    /\ qret = QRet("init")

\* quorums selected at the first instant only, from the full evaluator list
SelectEarly ==
    /\ now = 1
    /\ \E oid \in OptimaeIds, opt \in Optimizers, rep \in Reported, tip \in Tips :
          select_evaluators(oid, opt, rep, <<"alice", "bob", "carol">>, tip)

NextQuorumWait ==
    \/ SelectEarly
    \/ AddVote
    \/ EvaluateQuorum
    \/ cleanup_decided
    \/ Tick

NextQuorum ==
    \/ SelectEvaluators
    \/ AddVote
    \/ EvaluateQuorum
    \/ cleanup_decided

(***************************************************************************)
(* Part III  CommitRevealManager (models/commit_reveal.py)                 *)
(*                                                                         *)
(* A commitment hash is a small number.  The parameters and the nonce of a *)
(* reveal are codes; compute_commitment hashes the pair with Digest, which *)
(* stands for SHA-256 of the canonical JSON text.  Timestamps are values   *)
(* of now.                                                                 *)
(***************************************************************************)
MaxCommitAge == 1

Hashes == {1, 2}
Domains == {"d1", "d2"}
Parameters == {1, 2}
RevealNonces == {1, 2}

Commitment(h, dom, opt, t) ==
    [commitment_hash |-> h, domain_id |-> dom, optimizer_id |-> opt,
     timestamp |-> t, revealed |-> FALSE, expired |-> FALSE]

compute_commitment(parameters, nonce) == Digest(parameters, nonce) % 3

verify_commitment(h, parameters, nonce) ==
    compute_commitment(parameters, nonce) = h

CRet(op) ==
    [op |-> op, hash |-> 0, domain |-> "", optimizer |-> "",
     parameters |-> 0, nonce |-> 0, ok |-> FALSE, n |-> 0]

add_commitment(h, dom, opt) ==
    LET r == [CRet("add_commitment") EXCEPT !.hash = h, !.domain = dom,
                                           !.optimizer = opt] IN
    /\ IF h \in DOMAIN commitments
       THEN /\ UNCHANGED commitments
            /\ cret' = r
       ELSE /\ commitments' =
                 [x \in DOMAIN commitments \cup {h} |->
                     IF x = h THEN Commitment(h, dom, opt, now)
                     ELSE commitments[x]]
            /\ cret' = [r EXCEPT !.ok = TRUE]
    /\ UNCHANGED <<now, chanVars, ret, concVars, quorumVars, revealed_hashes,
                   coinVars, laterVars>>

\* the age check of process_reveal, has_valid_commitment and cleanup_expired
TooOld(c, t) == t - c.timestamp > MaxCommitAge

\* process_reveal, lines 96-108: hash, optimizer and domain of the reveal
RevealMatchesAnyOptimizer(c, h, dom, opt, parameters, nonce) ==
    /\ verify_commitment(h, parameters, nonce)
    /\ dom = c.domain_id

RevealMatches(c, h, dom, opt, parameters, nonce) ==
    /\ verify_commitment(h, parameters, nonce)
    /\ opt = c.optimizer_id
    /\ dom = c.domain_id

process_reveal(h, dom, opt, parameters, nonce) ==
    LET r == [CRet("process_reveal") EXCEPT !.hash = h, !.domain = dom,
                 !.optimizer = opt, !.parameters = parameters,
                 !.nonce = nonce] IN
    /\ IF h \notin DOMAIN commitments
       THEN /\ UNCHANGED <<commitments, revealed_hashes>>
            /\ cret' = r
       ELSE IF commitments[h].revealed \/ commitments[h].expired
       THEN /\ UNCHANGED <<commitments, revealed_hashes>>
            /\ cret' = r
       ELSE IF TooOld(commitments[h], now)
       THEN /\ commitments' = [commitments EXCEPT ![h].expired = TRUE]
            /\ UNCHANGED revealed_hashes
            /\ cret' = r
       ELSE IF ~RevealMatches(commitments[h], h, dom, opt, parameters, nonce)
       THEN /\ UNCHANGED <<commitments, revealed_hashes>>
            /\ cret' = r
       ELSE /\ commitments' = [commitments EXCEPT ![h].revealed = TRUE]
            /\ revealed_hashes' = revealed_hashes \cup {h}
            /\ cret' = [r EXCEPT !.ok = TRUE]
    /\ UNCHANGED <<now, chanVars, ret, concVars, quorumVars, coinVars, laterVars>>

\* cleanup_expired, line 118: what the sweep removes
RemovableFlagged(c, t) == c.revealed \/ c.expired

Removable(c, t) == c.revealed \/ c.expired \/ TooOld(c, t)

commit_cleanup_expired ==
    LET to_remove == {h \in DOMAIN commitments :
                         Removable(commitments[h], now)} IN
    /\ commitments' = [h \in DOMAIN commitments \ to_remove |-> commitments[h]]
    /\ cret' = [CRet("cleanup_expired") EXCEPT !.n = Cardinality(to_remove)]
    /\ UNCHANGED <<now, chanVars, ret, concVars, quorumVars, revealed_hashes,
                   coinVars, laterVars>>

has_valid_commitment(h) ==
    LET r == [CRet("has_valid_commitment") EXCEPT !.hash = h] IN
    /\ IF h \notin DOMAIN commitments
       THEN /\ UNCHANGED commitments
            /\ cret' = r
       ELSE IF commitments[h].revealed \/ commitments[h].expired
       THEN /\ UNCHANGED commitments
            /\ cret' = r
       ELSE IF TooOld(commitments[h], now)
       THEN /\ commitments' = [commitments EXCEPT ![h].expired = TRUE]
            /\ cret' = r
       ELSE /\ UNCHANGED commitments
            /\ cret' = [r EXCEPT !.ok = TRUE]
    /\ UNCHANGED <<now, chanVars, ret, concVars, quorumVars, revealed_hashes,
                   coinVars, laterVars>>

AddCommitment ==
    \E h \in Hashes, opt \in Optimizers : add_commitment(h, "d1", opt)
ProcessReveal ==
    \E h \in Hashes, dom \in Domains, opt \in Optimizers,
       parameters \in Parameters, nonce \in RevealNonces :
        process_reveal(h, dom, opt, parameters, nonce)
HasValidCommitment == \E h \in Hashes : has_valid_commitment(h)

CommitInit ==
    /\ commitments = << >>
    /\ cret = CRet("init")
    /\ revealed_hashes = {}

NextCommit ==
    \/ AddCommitment
    \/ ProcessReveal
    \/ HasValidCommitment
    \/ commit_cleanup_expired
    \/ Tick

(***************************************************************************)
(* Part IV  BalanceTracker (models/coin.py)                                *)
(*                                                                         *)
(* Amounts and fees are whole coins.                                       *)
(***************************************************************************)
CoinPeers == {"alice", "bob"}
TransferAmounts == {0 - 1, 0, 1}
TransferFees == {0 - 1, 0, 2}
TransferNonces == 1..MaxNonce
CoinbaseAmounts == {0, 1}

get_balance(peer) == IF peer \in DOMAIN balances THEN balances[peer] ELSE 0
get_nonce(peer) == IF peer \in DOMAIN nonces THEN nonces[peer] ELSE 0

\* d[k] = v, on a dict
DictSet(d, k, v) == [x \in DOMAIN d \cup {k} |-> IF x = k THEN v ELSE d[x]]

BRet(op) ==
    [op |-> op, sender |-> "", recipient |-> "", amount |-> 0, fee |-> 0,
     nonce |-> 0, ok |-> FALSE, reason |-> ""]

\* the credits of the outputs of a coinbase, output after output
RECURSIVE Credited(_, _)
Credited(bal, outputs) ==
    IF outputs = << >> THEN bal
    ELSE LET o == Head(outputs)
             had == IF o.recipient \in DOMAIN bal THEN bal[o.recipient] ELSE 0
         IN Credited(DictSet(bal, o.recipient, had + o.amount), Tail(outputs))

apply_coinbase(outputs, block_reward) ==
    /\ total_minted + block_reward <= MaxMinted
    /\ balances' = Credited(balances, outputs)
    /\ total_minted' = total_minted + block_reward
    /\ bret' = [BRet("apply_coinbase") EXCEPT !.ok = TRUE]
    /\ UNCHANGED <<now, chanVars, ret, concVars, quorumVars, commitVars, laterVars, nonces>>

\* the reason apply_transfer returns, "" when it applies the transfer
TransferErrorAnyNonce(sender, amount, fee, nonce) ==
    IF amount + fee <= 0 THEN "Amount must be positive"
    ELSE IF get_balance(sender) < amount + fee THEN "Insufficient balance"
    ELSE ""

TransferError(sender, amount, fee, nonce) ==
    IF amount + fee <= 0 THEN "Amount must be positive"
    ELSE IF get_balance(sender) < amount + fee THEN "Insufficient balance"
    ELSE IF nonce # get_nonce(sender) + 1 THEN "Invalid nonce"
    ELSE ""

apply_transfer(sender, recipient, amount, fee, nonce) ==
    LET err == TransferError(sender, amount, fee, nonce)
        r == [BRet("apply_transfer") EXCEPT !.sender = sender,
                 !.recipient = recipient, !.amount = amount, !.fee = fee,
                 !.nonce = nonce, !.reason = err]
    IN
    /\ IF err # ""
       THEN /\ UNCHANGED <<balances, nonces>>
            /\ bret' = r
       ELSE LET debited == DictSet(balances, sender,
                                   get_balance(sender) - (amount + fee))
                had == IF recipient \in DOMAIN debited
                       THEN debited[recipient] ELSE 0
            IN /\ balances' = DictSet(debited, recipient, had + amount)
               /\ nonces' = DictSet(nonces, sender, nonce)
               /\ bret' = [r EXCEPT !.ok = TRUE]
    /\ UNCHANGED <<now, chanVars, ret, concVars, quorumVars, commitVars, laterVars,
                   total_minted>>

CoinbaseOutput(recipient, amount) == [recipient |-> recipient, amount |-> amount]

\* coinbases with one or two outputs
CoinbaseOutputLists ==
    LET one == {CoinbaseOutput(p, a) : p \in CoinPeers, a \in CoinbaseAmounts}
    IN {<<o>> : o \in one} \cup {<<o1, o2>> : o1 \in one, o2 \in one}

\* the block reward of a coinbase is the sum of its outputs
RECURSIVE total_distributed(_)
total_distributed(outputs) ==
    IF outputs = << >> THEN 0
    ELSE Head(outputs).amount + total_distributed(Tail(outputs))

ApplyCoinbase ==
    \E outputs \in CoinbaseOutputLists :
        apply_coinbase(outputs, total_distributed(outputs))
ApplyTransfer ==
    \E s \in CoinPeers, r \in CoinPeers, a \in TransferAmounts,
       f \in TransferFees, n \in TransferNonces :
        apply_transfer(s, r, a, f, n)

CoinInit ==
    /\ balances = << >>
    /\ nonces = << >>
    /\ total_minted = 0
    /\ bret = BRet("init")

NextCoin ==
    \/ ApplyCoinbase
    \/ ApplyTransfer

(***************************************************************************)
(* Part V  distribute_block_reward (models/coin.py)                        *)
(*                                                                         *)
(* Amounts are whole numbers of a unit chosen so that the fractions 0.05,  *)
(* 0.65 and 0.30 and every proportional share of the inputs below are      *)
(* exact.  MIN_REWARD, far smaller than that unit, is the smallest positive *)
(* amount, 1.  The halving interval is scaled to two blocks.               *)
(***************************************************************************)
InitialBlockReward == 4800000
HalvingInterval == 2
MaxHalvings == 64
MinReward == 1
GeneratorFeeNum == 5
OptimizerPoolNum == 65
EvaluatorPoolNum == 30
FractionDen == 100

Generators == {"alice", "carol"}
Contributors == {"alice", "bob"}
Weights == {0, 1, 3}
TxFees == {0, 120000, 240000}

RECURSIVE Pow2(_)
Pow2(n) == IF n = 0 THEN 1 ELSE 2 * Pow2(n - 1)

compute_block_reward(block_index) ==
    LET halvings == block_index \div HalvingInterval IN
    IF halvings >= MaxHalvings THEN 0
    ELSE LET reward == InitialBlockReward \div Pow2(halvings)
         IN IF reward < MinReward THEN 0 ELSE reward

ContributorWork(peer, role, inc, frac, agreed, done) ==
    [peer_id |-> peer, role |-> role, effective_increment |-> inc,
     reward_fraction |-> frac, agreed_with_quorum |-> agreed,
     evaluations_completed |-> done]

RewardOutput(recipient, amount, reason) ==
    [recipient |-> recipient, amount |-> amount, reason |-> reason]

\* [c for c in contributors if c.role == role]
RECURSIVE WithRole(_, _)
WithRole(contributors, role) ==
    IF contributors = << >> THEN << >>
    ELSE IF Head(contributors).role = role
         THEN <<Head(contributors)>> \o WithRole(Tail(contributors), role)
         ELSE WithRole(Tail(contributors), role)

OptWeight(c) == c.effective_increment * c.reward_fraction
EvalWeight(c) == c.evaluations_completed * (IF c.agreed_with_quorum THEN 1 ELSE 0)

RECURSIVE SumOptWeights(_)
SumOptWeights(cs) ==
    IF cs = << >> THEN 0 ELSE OptWeight(Head(cs)) + SumOptWeights(Tail(cs))

RECURSIVE SumEvalWeights(_)
SumEvalWeights(cs) ==
    IF cs = << >> THEN 0 ELSE EvalWeight(Head(cs)) + SumEvalWeights(Tail(cs))

\* the outputs of the optimizers, lines 245-256
RECURSIVE OptimizerShares(_, _, _)
OptimizerShares(cs, pool, total) ==
    IF cs = << >> THEN << >>
    ELSE LET c == Head(cs)
             share == (pool * OptWeight(c)) \div total
             rest == OptimizerShares(Tail(cs), pool, total)
         IN IF OptWeight(c) <= 0 THEN rest
            ELSE IF share >= MinReward
                 THEN <<RewardOutput(c.peer_id, share, "optimizer")>> \o rest
                 ELSE rest

\* the outputs of the evaluators, lines 275-288
RECURSIVE EvaluatorShares(_, _, _)
EvaluatorShares(cs, pool, total) ==
    IF cs = << >> THEN << >>
    ELSE LET c == Head(cs)
             share == (pool * c.evaluations_completed) \div total
             rest == EvaluatorShares(Tail(cs), pool, total)
         IN IF ~c.agreed_with_quorum THEN rest
            ELSE IF c.evaluations_completed <= 0 THEN rest
            ELSE IF share >= MinReward
                 THEN <<RewardOutput(c.peer_id, share, "evaluator")>> \o rest
                 ELSE rest

RECURSIVE SumAmounts(_)
SumAmounts(outputs) ==
    IF outputs = << >> THEN 0
    ELSE Head(outputs).amount + SumAmounts(Tail(outputs))

\* outputs[0].amount += x
AddToFirst(outputs, x) == [outputs EXCEPT ![1].amount = @ + x]

\* the generator's reward, line 224
GeneratorReward(total_reward, tx_fees) ==
    (total_reward * GeneratorFeeNum) \div FractionDen + tx_fees

\* the CoinbaseTransaction distribute_block_reward returns
DistributedReward(block_index, generator_id, contributors, tx_fees) ==
    LET block_reward == compute_block_reward(block_index)
        total_reward == block_reward + tx_fees
    IN
    IF total_reward <= 0
    THEN [block_index |-> block_index, block_reward |-> 0, outputs |-> << >>]
    ELSE
    LET generator_reward == GeneratorReward(total_reward, tx_fees)
        out1 == IF generator_reward >= MinReward
                THEN <<RewardOutput(generator_id, generator_reward,
                                    "block_generator")>>
                ELSE << >>
        distributable == total_reward
                            - (total_reward * GeneratorFeeNum) \div FractionDen
        optimizers == WithRole(contributors, "optimizer")
        evaluators == WithRole(contributors, "evaluator")
        optimizer_pool == (distributable * OptimizerPoolNum) \div FractionDen
        total_opt_weight == SumOptWeights(optimizers)
        pay_optimizers == total_opt_weight > 0 /\ optimizer_pool >= MinReward
        out2 == IF pay_optimizers
                THEN out1 \o OptimizerShares(optimizers, optimizer_pool,
                                             total_opt_weight)
                ELSE out1
        evaluator_bonus == IF ~pay_optimizers /\ optimizer_pool >= MinReward
                           THEN optimizer_pool ELSE 0
        evaluator_pool == (distributable * EvaluatorPoolNum) \div FractionDen
                             + evaluator_bonus
        total_eval_weight == SumEvalWeights(evaluators)
        out3 == IF total_eval_weight > 0 /\ evaluator_pool >= MinReward
                THEN out2 \o EvaluatorShares(evaluators, evaluator_pool,
                                             total_eval_weight)
                ELSE IF evaluator_pool >= MinReward /\ out2 # << >>
                     THEN AddToFirst(out2, evaluator_pool)
                     ELSE out2
        remainder == total_reward - SumAmounts(out3)
        out4 == IF remainder >= MinReward /\ out3 # << >>
                THEN AddToFirst(out3, remainder)
                ELSE out3
    IN [block_index |-> block_index, block_reward |-> block_reward,
        outputs |-> out4]

\* a call of distribute_block_reward with its arguments, and its result
RewardCall(op, block_index, generator_id, contributors, tx_fees, out) ==
    [op |-> op, block_index |-> block_index, generator_id |-> generator_id,
     contributors |-> contributors, tx_fees |-> tx_fees, out |-> out]

NoCoinbase == [block_index |-> 0, block_reward |-> 0, outputs |-> << >>]

distribute_block_reward ==
    /\ coinbase.op = "call"
    /\ coinbase' = [coinbase EXCEPT
                       !.op = "distribute_block_reward",
                       !.out = DistributedReward(coinbase.block_index,
                                                 coinbase.generator_id,
                                                 coinbase.contributors,
                                                 coinbase.tx_fees)]
    /\ UNCHANGED <<now, earlierVars, rebuildVars, finalityVars, afterFinality>>

ContributorWorks ==
    {ContributorWork(p, "optimizer", i, f, TRUE, 0) :
        p \in Contributors, i \in Weights, f \in {0, 1}}
    \cup {ContributorWork(p, "evaluator", 0, 0, a, d) :
             p \in Contributors, a \in BOOLEAN, d \in Weights}

\* contributor lists of up to two entries
ContributorLists ==
    {<< >>} \cup {<<c>> : c \in ContributorWorks}
            \cup {<<c1, c2>> : c1 \in ContributorWorks, c2 \in ContributorWorks}

RewardInit == coinbase = RewardCall("init", 0, "", << >>, 0, NoCoinbase)

\* every call of distribute_block_reward within the bounds
RewardCalls ==
    coinbase \in {RewardCall("call", i, g, cs, f, NoCoinbase) :
                     i \in 0..MaxBlockIndex, g \in Generators,
                     cs \in ContributorLists, f \in TxFees}

NextReward == distribute_block_reward

(***************************************************************************)
(* BalanceTracker.rebuild_from_chain (models/coin.py).  A chain is the     *)
(* sequence of its coinbases and transfers in block order.                 *)
(***************************************************************************)
Tracker(bal, non, minted) ==
    [balances |-> bal, nonces |-> non, total_minted |-> minted]

FreshTracker == Tracker(<< >>, << >>, 0)

\* apply_coinbase on a tracker value
CoinbaseApplied(t, cb) ==
    Tracker(Credited(t.balances, cb.outputs), t.nonces,
            t.total_minted + cb.block_reward)

\* apply_transfer on a tracker value
TransferApplied(t, tx) ==
    LET sender_balance == IF tx.sender \in DOMAIN t.balances
                          THEN t.balances[tx.sender] ELSE 0
        last_nonce == IF tx.sender \in DOMAIN t.nonces
                      THEN t.nonces[tx.sender] ELSE 0
        total_debit == tx.amount + tx.fee
    IN IF total_debit <= 0 THEN t
       ELSE IF sender_balance < total_debit THEN t
       ELSE IF tx.nonce # last_nonce + 1 THEN t
       ELSE LET debited == DictSet(t.balances, tx.sender,
                                   sender_balance - total_debit)
                had == IF tx.recipient \in DOMAIN debited
                       THEN debited[tx.recipient] ELSE 0
            IN Tracker(DictSet(debited, tx.recipient, had + tx.amount),
                       DictSet(t.nonces, tx.sender, tx.nonce),
                       t.total_minted)

\* for cb in coinbases: self.apply_coinbase(cb)
RECURSIVE AllCoinbasesApplied(_, _)
AllCoinbasesApplied(t, coinbases) ==
    IF coinbases = << >> THEN t
    ELSE AllCoinbasesApplied(CoinbaseApplied(t, Head(coinbases)),
                             Tail(coinbases))

\* for tx in transfers: self.apply_transfer(tx)
RECURSIVE AllTransfersApplied(_, _)
AllTransfersApplied(t, transfers) ==
    IF transfers = << >> THEN t
    ELSE AllTransfersApplied(TransferApplied(t, Head(transfers)),
                             Tail(transfers))

\* the entries of one kind of a chain, in chain order
RECURSIVE OfKind(_, _)
OfKind(entries, kind) ==
    IF entries = << >> THEN << >>
    ELSE IF Head(entries).kind = kind
         THEN <<Head(entries)>> \o OfKind(Tail(entries), kind)
         ELSE OfKind(Tail(entries), kind)

rebuild_from_chain ==
    LET coinbases == OfKind(chain, "coinbase")
        transfers == OfKind(chain, "transfer")
        rebuilt == AllTransfersApplied(
                       AllCoinbasesApplied(FreshTracker, coinbases), transfers)
    IN /\ bret.op # "rebuild_from_chain"
       /\ balances' = rebuilt.balances
       /\ nonces' = rebuilt.nonces
       /\ total_minted' = rebuilt.total_minted
       /\ bret' = [BRet("rebuild_from_chain") EXCEPT !.ok = TRUE]
       /\ UNCHANGED <<now, chanVars, ret, concVars, quorumVars, commitVars,
                      laterVars>>

\* the entries of a chain applied one by one in chain order
RECURSIVE Replayed(_, _)
Replayed(t, entries) ==
    IF entries = << >> THEN t
    ELSE Replayed(IF Head(entries).kind = "coinbase"
                  THEN CoinbaseApplied(t, Head(entries))
                  ELSE TransferApplied(t, Head(entries)),
                  Tail(entries))

CoinbaseEntry(recipient, amount) ==
    [kind |-> "coinbase", outputs |-> <<CoinbaseOutput(recipient, amount)>>,
     block_reward |-> amount]

TransferEntry(sender, recipient, amount, fee, nonce) ==
    [kind |-> "transfer", sender |-> sender, recipient |-> recipient,
     amount |-> amount, fee |-> fee, nonce |-> nonce]

ChainEntries ==
    {CoinbaseEntry(p, 1) : p \in CoinPeers}
    \cup {TransferEntry(s, r, a, 0, n) :
             s \in CoinPeers, r \in CoinPeers, a \in {1, 2}, n \in 1..2}

\* every chain of up to MaxChain entries
Chains == chain \in SeqsUpTo(ChainEntries, MaxChain)

RebuildInit == chain = << >>

NextRebuild == rebuild_from_chain

(***************************************************************************)
(* Part VI  FinalityManager (consensus/finality.py)                        *)
(***************************************************************************)
ConfirmationDepth == 2

None == "None"
BlockHashes == {"h1"}
Heights == (0 - 2)..MaxHeight
ChainHeights == 0..(MaxHeight + ConfirmationDepth)
ReorgDepths == 0..MaxHeight

Checkpoint(height, hash, source) ==
    [block_height |-> height, block_hash |-> hash, timestamp |-> now,
     source |-> source]

\* latest_checkpoint; None when there is no checkpoint
latest_checkpoint ==
    IF checkpoints # << >> THEN checkpoints[Len(checkpoints)] ELSE None

finalized_height_first ==
    IF checkpoints # << >> THEN checkpoints[1].block_height ELSE 0 - 1

\* cp = latest_checkpoint; cp.block_height if cp else -1
finalized_height ==
    IF checkpoints # << >> THEN latest_checkpoint.block_height ELSE 0 - 1

FRet(op) ==
    [op |-> op, height |-> 0, hash |-> "", depth |-> 0, raised |-> FALSE,
     out |-> << >>]

add_checkpoint(block_height, block_hash, source) ==
    LET r == [FRet("add_checkpoint") EXCEPT !.height = block_height,
                                           !.hash = block_hash] IN
    /\ IF /\ checkpoints # << >>
          /\ block_height <= checkpoints[Len(checkpoints)].block_height
       THEN /\ fret' = [r EXCEPT !.raised = TRUE]
            /\ UNCHANGED checkpoints
       ELSE LET cp == Checkpoint(block_height, block_hash, source) IN
            /\ checkpoints' = Append(checkpoints, cp)
            /\ fret' = [r EXCEPT !.out = <<cp>>]
    /\ UNCHANGED <<now, earlierVars, rewardVars, rebuildVars, afterFinality>>

on_new_block(chain_height, block_hash_at_depth) ==
    LET r == [FRet("on_new_block") EXCEPT !.height = chain_height,
                                         !.hash = block_hash_at_depth]
        candidate_height == chain_height - ConfirmationDepth
    IN
    /\ IF block_hash_at_depth = None
       THEN /\ fret' = r
            /\ UNCHANGED checkpoints
       ELSE IF candidate_height <= finalized_height
       THEN /\ fret' = r
            /\ UNCHANGED checkpoints
       ELSE LET cp == Checkpoint(candidate_height, block_hash_at_depth,
                                 "implicit") IN
            /\ checkpoints' = Append(checkpoints, cp)
            /\ fret' = [r EXCEPT !.out = <<cp>>]
    /\ UNCHANGED <<now, earlierVars, rewardVars, rebuildVars, afterFinality>>

is_reorg_allowed(reorg_depth, chain_height) ==
    LET reorg_to == chain_height - reorg_depth IN
    /\ fret' = [FRet("is_reorg_allowed") EXCEPT
                   !.height = chain_height, !.depth = reorg_depth,
                   !.out = <<reorg_to > finalized_height>>]
    /\ UNCHANGED <<now, earlierVars, rewardVars, rebuildVars, afterFinality,
                   checkpoints>>

AddCheckpoint ==
    \E h \in Heights, b \in BlockHashes : add_checkpoint(h, b, "explicit")
OnNewBlock ==
    \E h \in ChainHeights, b \in BlockHashes \cup {None} : on_new_block(h, b)
IsReorgAllowed ==
    \E d \in ReorgDepths, h \in ChainHeights : is_reorg_allowed(d, h)

FinalityInit ==
    /\ checkpoints = << >>
    /\ fret = FRet("init")

NextFinality ==
    \/ AddCheckpoint
    \/ OnNewBlock
    \/ IsReorgAllowed

(***************************************************************************)
(* Part VII ProofOfOptimization (consensus/proof_of_optimization.py)       *)
(*                                                                         *)
(* Thresholds and increments are counted in units of 0.5, times in ticks.  *)
(* A Transaction carries the number seq of the object, which tells two     *)
(* recordings with the same content apart.                                 *)
(***************************************************************************)
InitialThreshold == 2
TargetBlockTime == 2
AdjustmentDen == 4
MinThreshold == 1
MaxThreshold == 4

PooDomains == {"d1", "d2"}
DomainWeight(d) == IF d = "d1" THEN 1 ELSE 2
DomainCode(d) == IF d = "d1" THEN 1 ELSE 2
Increments == {1, 2}
PooPeers == {"alice"}
GeneratorCode(g) == IF g = "genesis" THEN 0 ELSE PeerCode[g]
TypeCode(t) == IF t = "optimae_accepted" THEN 1 ELSE 2
ZeroHash == 0

\* Transaction.compute_id
compute_id(tx_type, domain_id, peer_id, payload, timestamp) ==
    Digest(Digest(TypeCode(tx_type), DomainCode(domain_id)),
           Digest(PeerCode[peer_id] + payload, timestamp))

Transaction(tx_type, domain_id, peer_id, payload) ==
    [seq |-> recorded + 1,
     id |-> compute_id(tx_type, domain_id, peer_id, payload, now),
     tx_type |-> tx_type, domain_id |-> domain_id, peer_id |-> peer_id,
     payload |-> payload, timestamp |-> now]

\* one level of the Merkle tree: the hashes of the pairs
RECURSIVE MerklePairs(_)
MerklePairs(level) ==
    IF Len(level) < 2 THEN << >>
    ELSE <<Digest(level[1], level[2])>> \o MerklePairs(Tail(Tail(level)))

\* the last hash is duplicated when the level has an odd length
MerklePadded(level) ==
    IF Len(level) % 2 = 1 THEN Append(level, level[Len(level)]) ELSE level

RECURSIVE MerkleReduce(_)
MerkleReduce(level) ==
    IF Len(level) <= 1 THEN level[1]
    ELSE LET next == MerklePairs(level)
         IN IF Len(next) > 1 THEN MerkleReduce(MerklePadded(next))
            ELSE next[1]

compute_merkle_root(hashes) ==
    IF hashes = << >> THEN ZeroHash
    ELSE IF Len(hashes) = 1 THEN hashes[1]
    ELSE MerkleReduce(MerklePadded(hashes))

BlockHeader(index, previous_hash, timestamp, root, generator_id, sum, thr) ==
    [index |-> index, previous_hash |-> previous_hash,
     timestamp |-> timestamp, merkle_root |-> root,
     generator_id |-> generator_id, weighted_performance_sum |-> sum,
     threshold |-> thr]

\* BlockHeader.compute_hash
compute_hash(header) ==
    Digest(Digest(header.index, header.previous_hash),
           Digest(header.merkle_root + GeneratorCode(header.generator_id),
                  header.timestamp + header.weighted_performance_sum
                      + header.threshold))

Block(header, transactions) ==
    [header |-> header, transactions |-> transactions,
     hash |-> compute_hash(header)]

genesis ==
    Block(BlockHeader(0, ZeroHash, 0, ZeroHash, "genesis", 0, 0), << >>)

PRet(op) == [op |-> op, raised |-> FALSE, parent |-> << >>, out |-> << >>]

RECURSIVE SumValues(_, _)
SumValues(f, keys) ==
    IF keys = {} THEN 0
    ELSE LET k == CHOOSE x \in keys : TRUE
         IN f[k] + SumValues(f, keys \ {k})

weighted_sum == SumValues(pending_increments, DOMAIN pending_increments)

can_generate_block_strict == weighted_sum > threshold

can_generate_block == weighted_sum >= threshold

register_domain(domain) ==
    /\ domains' = DictSet(domains, domain, DomainWeight(domain))
    /\ pret' = PRet("register_domain")
    /\ UNCHANGED <<threshold, last_block_time, pending_increments,
                   pending_transactions, recorded, blocks>>
    /\ UNCHANGED <<now, earlierVars, rewardVars, rebuildVars, finalityVars,
                   afterPoo>>

record_optimae(domain_id, optimizer_id, performance_increment) ==
    /\ recorded < MaxRecorded
    /\ IF domain_id \notin DOMAIN domains
       THEN /\ pret' = [PRet("record_optimae") EXCEPT !.raised = TRUE]
            /\ UNCHANGED <<pending_increments, pending_transactions, recorded>>
       ELSE LET weighted_increment ==
                    performance_increment * domains[domain_id]
                current == IF domain_id \in DOMAIN pending_increments
                           THEN pending_increments[domain_id] ELSE 0
                tx == Transaction("optimae_accepted", domain_id, optimizer_id,
                                  performance_increment)
            IN /\ pending_increments' =
                     DictSet(pending_increments, domain_id,
                             current + weighted_increment)
               /\ pending_transactions' = Append(pending_transactions, tx)
               /\ recorded' = recorded + 1
               /\ pret' = PRet("record_optimae")
    /\ UNCHANGED <<threshold, last_block_time, domains, blocks>>
    /\ UNCHANGED <<now, earlierVars, rewardVars, rebuildVars, finalityVars,
                   afterPoo>>

record_transaction(tx, op) ==
    /\ pending_transactions' = Append(pending_transactions, tx)
    /\ recorded' = recorded + 1
    /\ pret' = PRet(op)
    /\ UNCHANGED <<threshold, last_block_time, pending_increments, domains,
                   blocks>>
    /\ UNCHANGED <<now, earlierVars, rewardVars, rebuildVars, finalityVars,
                   afterPoo>>

record_evaluation(domain_id, peer_id, request_id) ==
    /\ recorded < MaxRecorded
    /\ record_transaction(
           Transaction("evaluation_served", domain_id, peer_id, request_id),
           "record_evaluation")

Clamp(lo, x, hi) == IF x < lo THEN lo ELSE IF x > hi THEN hi ELSE x

\* the threshold after _adjust_threshold:
\* threshold / (1 + (elapsed / target - 1) / AdjustmentDen), clamped
adjusted_threshold ==
    LET elapsed == now - last_block_time
        target == TargetBlockTime
    IN IF elapsed <= 0 \/ target <= 0 THEN threshold
       ELSE Clamp(MinThreshold,
                  (threshold * AdjustmentDen * target)
                      \div ((AdjustmentDen - 1) * target + elapsed),
                  MaxThreshold)

TxIds(transactions) == [i \in 1..Len(transactions) |-> transactions[i].id]

generate_block(previous_block, generator_id) ==
    LET r == [PRet("generate_block") EXCEPT !.parent = <<previous_block>>] IN
    /\ IF ~can_generate_block
       THEN /\ pret' = r
            /\ UNCHANGED <<threshold, last_block_time, pending_increments,
                           pending_transactions, blocks>>
       ELSE LET transactions == pending_transactions
                merkle_root == compute_merkle_root(TxIds(transactions))
                header == BlockHeader(previous_block.header.index + 1,
                                      previous_block.hash, now, merkle_root,
                                      generator_id, weighted_sum, threshold)
                block == Block(header, transactions)
            IN /\ Len(blocks) <= MaxBlocks
               /\ threshold' = adjusted_threshold
               /\ pending_increments' = << >>
               /\ pending_transactions' = << >>
               /\ last_block_time' = now
               /\ blocks' = Append(blocks, block)
               /\ pret' = [r EXCEPT !.out = <<block>>]
    /\ UNCHANGED <<domains, recorded>>
    /\ UNCHANGED <<now, earlierVars, rewardVars, rebuildVars, finalityVars,
                   afterPoo>>

RegisterDomain == \E d \in PooDomains : register_domain(d)
RecordOptimae ==
    \E d \in PooDomains, p \in PooPeers, inc \in Increments :
        record_optimae(d, p, inc)
RecordEvaluation == \E p \in PooPeers : record_evaluation("d1", p, 1)
GenerateBlock ==
    \E i \in 1..Len(blocks), g \in PooPeers : generate_block(blocks[i], g)

PooInit ==
    /\ threshold = InitialThreshold
    /\ last_block_time = 1
    /\ pending_increments = << >>
    /\ pending_transactions = << >>
    /\ domains = << >>
    /\ recorded = 0
    /\ blocks = <<genesis>>
    /\ pret = PRet("init")

NextPoo ==
    \/ Tick
    \/ RegisterDomain
    \/ RecordOptimae
    \/ RecordEvaluation
    \/ GenerateBlock

(***************************************************************************)
(* Part VIII FeeMarket (models/fee_market.py)                              *)
(*                                                                         *)
(* Fees are integers in units of an eighth of the minimum base fee, times  *)
(* are ticks, and the limits are scaled down.  The mempool, a heap of      *)
(* tuples (-fee, timestamp, tx_id, tx_data), is kept as the sequence of    *)
(* its tuples in ascending order, which is a heap: heappop takes its head  *)
(* and sort() followed by pop() takes its last element.  Transaction ids   *)
(* are numbers in the order of the id strings.  The keys "fee" and "tx_id" *)
(* that get_block_transactions writes into tx_data are carried by the      *)
(* record it hands out.                                                    *)
(***************************************************************************)
MinBaseFee == 8
MaxBaseFee == 32
MinChange == 1
BaseFeeChangeDenom == 8
TargetBlockSize == 1
MaxBlockSize == 2
OptimaeStakeMultiplier == 5
MempoolSizeLimit == 2
RateLimitWindow == 2
RateLimitMaxTx == 2
RateLimitMaxOptimae == 1

BlockTxCounts == 0..(MaxBlockSize + 1)
FeePeers == {"alice", "bob"}
NoPeer == ""
TxIdSet == 1..MaxTxId
TxTypes == {"transfer", "optimae_commit"}
MempoolFees == {7, 8, 40}
MaxCounts == {0, 1}

Max(a, b) == IF a >= b THEN a ELSE b

MRet(op) ==
    [op |-> op, ok |-> TRUE, reason |-> "", n |-> 0, fee |-> 0, peer |-> "",
     is_optimae |-> FALSE, id |-> "", accepted |-> FALSE, out |-> << >>]

\* validate_fee: (ok, reason)
validate_fee(fee, is_optimae) ==
    IF is_optimae
    THEN IF fee < base_fee * OptimaeStakeMultiplier
         THEN [ok |-> FALSE, reason |-> "Optimae stake below minimum"]
         ELSE [ok |-> TRUE, reason |-> ""]
    ELSE IF fee < base_fee
         THEN [ok |-> FALSE, reason |-> "Fee below base fee"]
         ELSE [ok |-> TRUE, reason |-> ""]

ValidateFee ==
    \E fee \in MempoolFees, is_optimae \in BOOLEAN :
        LET v == validate_fee(fee, is_optimae) IN
        /\ mret' = [MRet("validate_fee") EXCEPT !.ok = v.ok,
                       !.reason = v.reason, !.fee = fee,
                       !.is_optimae = is_optimae]
        /\ UNCHANGED <<base_fee, mempool, rate_tracker, optimae_tracker,
                       admitted, taken, arrivals>>
        /\ UNCHANGED <<now, earlierVars, rewardVars, rebuildVars, finalityVars,
                       pooVars, afterFee>>

\* the base fee after adjust_base_fee, without the cap at max_base_fee
adjusted_base_fee_uncapped(block_tx_count) ==
    LET target == TargetBlockSize IN
    IF block_tx_count = target THEN base_fee
    ELSE IF block_tx_count > target
    THEN LET delta == block_tx_count - target
             change == (base_fee * delta) \div (target * BaseFeeChangeDenom)
         IN base_fee + Max(change, MinChange)
    ELSE LET delta == target - block_tx_count
             change == (base_fee * delta) \div (target * BaseFeeChangeDenom)
         IN Max(MinBaseFee, base_fee - change)

\* the base fee after adjust_base_fee(block_tx_count)
adjusted_base_fee(block_tx_count) ==
    LET target == TargetBlockSize IN
    IF block_tx_count = target THEN base_fee
    ELSE IF block_tx_count > target
    THEN LET delta == block_tx_count - target
             change == (base_fee * delta) \div (target * BaseFeeChangeDenom)
         IN Min(MaxBaseFee, base_fee + Max(change, MinChange))
    ELSE LET delta == target - block_tx_count
             change == (base_fee * delta) \div (target * BaseFeeChangeDenom)
         IN Max(MinBaseFee, base_fee - change)

adjust_base_fee(block_tx_count) ==
    /\ base_fee' = adjusted_base_fee(block_tx_count)
    /\ mret' = [MRet("adjust_base_fee") EXCEPT !.n = block_tx_count,
                   !.out = <<base_fee'>>]
    /\ UNCHANGED <<mempool, rate_tracker, optimae_tracker, admitted, taken,
                   arrivals>>
    /\ UNCHANGED <<now, earlierVars, rewardVars, rebuildVars, finalityVars,
                   pooVars, afterFee>>

AdjustBaseFee == \E n \in BlockTxCounts : adjust_base_fee(n)

\* one tracker for both kinds of submission
TrackerOfAny(is_optimae) == rate_tracker

\* tracker = self._optimae_tracker if is_optimae else self._rate_tracker
TrackerOf(is_optimae) ==
    IF is_optimae THEN optimae_tracker ELSE rate_tracker

LimitOf(is_optimae) ==
    IF is_optimae THEN RateLimitMaxOptimae ELSE RateLimitMaxTx

\* [t for t in tracker[peer_id] if t > cutoff]
Recent(stamps, cutoff) == SelectSeq(stamps, LAMBDA t : t > cutoff)

\* check_rate_limit: the result and the tracker it leaves
rate_limit_checked(peer_id, is_optimae) ==
    LET cutoff == now - RateLimitWindow
        tracker == TrackerOf(is_optimae)
        old == IF peer_id \in DOMAIN tracker THEN tracker[peer_id] ELSE << >>
        kept == Recent(old, cutoff)
    IN IF Len(kept) >= LimitOf(is_optimae)
       THEN [ok |-> FALSE, reason |-> "Rate limit exceeded",
             tracker |-> DictSet(tracker, peer_id, kept)]
       ELSE [ok |-> TRUE, reason |-> "",
             tracker |-> DictSet(tracker, peer_id, Append(kept, now))]

\* the two trackers and the log after rate_limit_checked gave rc
TrackersSet(peer_id, is_optimae, rc) ==
    /\ rate_tracker' = IF is_optimae THEN rate_tracker ELSE rc.tracker
    /\ optimae_tracker' = IF is_optimae THEN rc.tracker ELSE optimae_tracker
    /\ admitted' =
          LET key == <<peer_id, is_optimae, now>>
              count == IF key \in DOMAIN admitted THEN admitted[key] ELSE 0
          IN IF rc.ok THEN DictSet(admitted, key, count + 1) ELSE admitted

check_rate_limit(peer_id, is_optimae) ==
    LET rc == rate_limit_checked(peer_id, is_optimae) IN
    /\ TrackersSet(peer_id, is_optimae, rc)
    /\ mret' = [MRet("check_rate_limit") EXCEPT !.ok = rc.ok,
                   !.reason = rc.reason, !.peer = peer_id,
                   !.is_optimae = is_optimae]
    /\ UNCHANGED <<base_fee, mempool, taken, arrivals>>
    /\ UNCHANGED <<now, earlierVars, rewardVars, rebuildVars, finalityVars,
                   pooVars, afterFee>>

CheckRateLimit ==
    \E p \in FeePeers, is_optimae \in BOOLEAN : check_rate_limit(p, is_optimae)

IdsOf(heap) == {heap[i].tx_id : i \in 1..Len(heap)}

\* the order of entry after a call: the ids that left the mempool are
\* dropped, the ids that entered it are added at the end
Entered(before, after, order, new) ==
    SelectSeq(order, LAMBDA id : id \in IdsOf(after))
        \o SelectSeq(new, LAMBDA id : id \in IdsOf(after) \ IdsOf(before))

\* the order of the tuples (-fee, timestamp, tx_id, tx_data)
ItemLess(a, b) ==
    \/ a.neg_fee < b.neg_fee
    \/ a.neg_fee = b.neg_fee /\ a.ts < b.ts
    \/ a.neg_fee = b.neg_fee /\ a.ts = b.ts /\ a.tx_id < b.tx_id

Item(fee, tx_id, tx_data) ==
    [neg_fee |-> 0 - fee, ts |-> now, tx_id |-> tx_id, tx_data |-> tx_data]

\* heapq.heappush
heappush(heap, item) ==
    LET before == SelectSeq(heap, LAMBDA x : ItemLess(x, item))
        after == SelectSeq(heap, LAMBDA x : ~ItemLess(x, item))
    IN before \o <<item>> \o after

RECURSIVE MaxNegFee(_)
MaxNegFee(heap) ==
    IF Len(heap) = 1 THEN heap[1].neg_fee
    ELSE Max(heap[1].neg_fee, MaxNegFee(Tail(heap)))

\* self._mempool.sort(); self._mempool.pop()
WithoutWorst(heap) == SubSeq(heap, 1, Len(heap) - 1)

IsOptimaeType(tx_type) == tx_type \in {"optimae_commit", "optimae_reveal"}

add_to_mempool(tx_id, fee, tx_data, peer_id) ==
    LET is_optimae == IsOptimaeType(tx_data.tx_type)
        v == validate_fee(fee, is_optimae)
        rc == rate_limit_checked(peer_id, is_optimae)
        r == [MRet("add_to_mempool") EXCEPT !.fee = fee]
        full == Len(mempool) >= MempoolSizeLimit /\ mempool # << >>
    IN
    /\ IF ~v.ok
       THEN /\ mret' = [r EXCEPT !.ok = FALSE, !.reason = v.reason]
            /\ UNCHANGED <<mempool, rate_tracker, optimae_tracker, admitted>>
       ELSE IF peer_id # NoPeer /\ ~rc.ok
       THEN /\ mret' = [r EXCEPT !.ok = FALSE, !.reason = rc.reason]
            /\ TrackersSet(peer_id, is_optimae, rc)
            /\ UNCHANGED mempool
       ELSE /\ IF peer_id # NoPeer
               THEN TrackersSet(peer_id, is_optimae, rc)
               ELSE UNCHANGED <<rate_tracker, optimae_tracker, admitted>>
            /\ IF full /\ 0 - fee <= MaxNegFee(mempool)
               THEN /\ mret' = [r EXCEPT !.ok = FALSE,
                                   !.reason = "Mempool full and fee too low"]
                    /\ UNCHANGED mempool
               ELSE /\ mempool' =
                          heappush(IF full THEN WithoutWorst(mempool)
                                   ELSE mempool,
                                   Item(fee, tx_id, tx_data))
                    /\ mret' = r
    /\ arrivals' = Entered(mempool, mempool', arrivals, <<tx_id>>)
    /\ UNCHANGED <<base_fee, taken>>
    /\ UNCHANGED <<now, earlierVars, rewardVars, rebuildVars, finalityVars,
                   pooVars, afterFee>>

\* the ids of the transactions in the mempool or handed out
KnownTxIds ==
    {mempool[i].tx_id : i \in 1..Len(mempool)}
        \cup {taken[i].tx_id : i \in 1..Len(taken)}

AddToMempool ==
    \E tx_id \in TxIdSet \ KnownTxIds, fee \in MempoolFees,
       tx_type \in TxTypes, peer_id \in {NoPeer, "alice"} :
        add_to_mempool(tx_id, fee, [tx_type |-> tx_type], peer_id)

\* tx_data with tx_data["fee"] and tx_data["tx_id"] set
Handed(item) ==
    [tx_type |-> item.tx_data.tx_type, fee |-> 0 - item.neg_fee,
     tx_id |-> item.tx_id]

get_block_transactions(max_count) ==
    LET limit == IF max_count # 0 THEN max_count ELSE MaxBlockSize
        k == Min(Max(limit, 0), Len(mempool))
        result == [i \in 1..k |-> Handed(mempool[i])]
    IN
    /\ mempool' = SubSeq(mempool, k + 1, Len(mempool))
    /\ taken' = taken \o result
    /\ arrivals' = Entered(mempool, mempool', arrivals, << >>)
    /\ mret' = [MRet("get_block_transactions") EXCEPT !.n = max_count,
                   !.out = result]
    /\ UNCHANGED <<base_fee, rate_tracker, optimae_tracker, admitted>>
    /\ UNCHANGED <<now, earlierVars, rewardVars, rebuildVars, finalityVars,
                   pooVars, afterFee>>

GetBlockTransactions == \E m \in MaxCounts : get_block_transactions(m)

RECURSIVE AllPushed(_, _)
AllPushed(heap, transactions) ==
    IF transactions = << >> THEN heap
    ELSE LET tx_data == Head(transactions)
         IN AllPushed(heappush(heap, Item(tx_data.fee, tx_data.tx_id,
                                          [tx_type |-> tx_data.tx_type])),
                      Tail(transactions))

return_to_mempool(transactions) ==
    /\ mempool' = AllPushed(mempool, transactions)
    /\ taken' = << >>
    /\ arrivals' = Entered(mempool, mempool', arrivals,
                           [i \in 1..Len(transactions) |->
                               transactions[i].tx_id])
    /\ mret' = [MRet("return_to_mempool") EXCEPT !.out = transactions]
    /\ UNCHANGED <<base_fee, rate_tracker, optimae_tracker, admitted>>
    /\ UNCHANGED <<now, earlierVars, rewardVars, rebuildVars, finalityVars,
                   pooVars, afterFee>>

ReturnToMempool == taken # << >> /\ return_to_mempool(taken)

FeeInit ==
    /\ base_fee = MinBaseFee
    /\ mempool = << >>
    /\ rate_tracker = << >>
    /\ optimae_tracker = << >>
    /\ admitted = << >>
    /\ taken = << >>
    /\ arrivals = << >>
    /\ mret = MRet("init")

NextFeeBase ==
    \/ AdjustBaseFee
    \/ ValidateFee

NextRate ==
    \/ Tick
    \/ CheckRateLimit

NextMempool ==
    \/ Tick
    \/ AddToMempool
    \/ GetBlockTransactions
    \/ ReturnToMempool

(***************************************************************************)
(* Optimae staking (models/fee_market.py).  Stakes are integers in units   *)
(* of which the burn fraction 0.2 takes a whole number.                    *)
(***************************************************************************)
BurnNum == 1
BurnDen == 5

StakedIds == {"o1", "o2"}
Stakes == {0, 5, 10}

feeFrame == <<base_fee, mempool, rate_tracker, optimae_tracker, admitted,
              taken, arrivals>>

stake_for_optimae(optimae_id, stake) ==
    /\ staked' = DictSet(staked, optimae_id, stake)
    /\ open_stake' = DictSet(open_stake, optimae_id, stake)
    /\ mret' = [MRet("stake_for_optimae") EXCEPT !.id = optimae_id,
                   !.fee = stake]
    /\ UNCHANGED <<total_burned, feeFrame>>
    /\ UNCHANGED <<now, earlierVars, rewardVars, rebuildVars, finalityVars,
                   pooVars, afterStake>>

\* a dict without one key
DictPop(f, key) == [k \in DOMAIN f \ {key} |-> f[k]]

\* self._staked after self._staked.pop(optimae_id, 0.0), with the id kept
StakedAfterGet(optimae_id) == staked

\* self._staked after self._staked.pop(optimae_id, 0.0)
StakedAfterPop(optimae_id) == DictPop(staked, optimae_id)

resolve_optimae(optimae_id, accepted) ==
    LET stake == IF optimae_id \in DOMAIN staked THEN staked[optimae_id]
                 ELSE 0
        burn == (stake * BurnNum) \div BurnDen
        r == [MRet("resolve_optimae") EXCEPT !.id = optimae_id,
                                             !.accepted = accepted]
    IN
    /\ staked' = StakedAfterPop(optimae_id)
    /\ open_stake' = DictPop(open_stake, optimae_id)
    /\ IF stake <= 0
       THEN /\ mret' = [r EXCEPT !.out = <<0>>]
            /\ UNCHANGED total_burned
       ELSE IF accepted
       THEN /\ mret' = [r EXCEPT !.out = <<stake>>]
            /\ UNCHANGED total_burned
       ELSE /\ total_burned + burn <= MaxBurned
            /\ total_burned' = total_burned + burn
            /\ mret' = [r EXCEPT !.out = <<stake - burn>>]
    /\ UNCHANGED feeFrame
    /\ UNCHANGED <<now, earlierVars, rewardVars, rebuildVars, finalityVars,
                   pooVars, afterStake>>

StakeForOptimae ==
    \E id \in StakedIds, stake \in Stakes : stake_for_optimae(id, stake)
ResolveOptimae ==
    \E id \in StakedIds, accepted \in BOOLEAN : resolve_optimae(id, accepted)

StakeInit ==
    /\ staked = << >>
    /\ total_burned = 0
    /\ open_stake = << >>

NextStake ==
    \/ StakeForOptimae
    \/ ResolveOptimae

(***************************************************************************)
(* Fork choice (consensus/fork_choice.py).  Cumulative increments are      *)
(* integers in units of the comparison tolerance 1e-10.                    *)
(***************************************************************************)
IncrementTolerance == 1

TipHashes == {"a", "b", "c"}
HashRank == [h \in TipHashes |-> CASE h = "a" -> 1 [] h = "b" -> 2 [] h = "c" -> 3]
ForkBlockHashes == {"h1", "h2"}

\* a transaction dict and a block dict as score_chain reads them
TxDict(tx_type, payload) == [tx_type |-> tx_type, payload |-> payload]
BlockDict(height, hash, transactions) ==
    [height |-> height, hash |-> hash, transactions |-> transactions]

Accepted(e) == TxDict("optimae_accepted", [effective_increment |-> e])

\* the transaction lists of the chains that are scored
ForkTxLists ==
    { << >>, <<Accepted(2)>>, <<Accepted(0 - 1), Accepted(0)>>,
      <<Accepted(0), Accepted(0), Accepted(0)>>,
      <<Accepted(1), TxDict("transfer", [effective_increment |-> 2])>> }

\* d.get(key, default)
DictGet(d, key, default) == IF key \in DOMAIN d THEN d[key] ELSE default

ChainScore(tip_hash, height, cumulative, accepted_count, consistent) ==
    [tip_hash |-> tip_hash, height |-> height,
     cumulative_increment |-> cumulative,
     optimae_accepted_count |-> accepted_count,
     is_checkpoint_consistent |-> consistent]

\* ChainScore.__lt__
ScoreLess(self, other) ==
    IF self.is_checkpoint_consistent # other.is_checkpoint_consistent
    THEN ~self.is_checkpoint_consistent
    ELSE IF Abs(self.cumulative_increment - other.cumulative_increment)
              > IncrementTolerance
    THEN self.cumulative_increment < other.cumulative_increment
    ELSE IF self.optimae_accepted_count # other.optimae_accepted_count
    THEN self.optimae_accepted_count < other.optimae_accepted_count
    ELSE HashRank[self.tip_hash] > HashRank[other.tip_hash]

\* the transactions of type optimae_accepted of one block
AcceptedOf(block) ==
    SelectSeq(DictGet(block, "transactions", << >>),
              LAMBDA tx : DictGet(tx, "tx_type", "") = "optimae_accepted")

RECURSIVE SumEffective(_)
SumEffective(txs) ==
    IF txs = << >> THEN 0
    ELSE Abs(DictGet(DictGet(Head(txs), "payload", << >>),
                     "effective_increment", 0))
         + SumEffective(Tail(txs))

RECURSIVE CumulativeOf(_)
CumulativeOf(bs) ==
    IF bs = << >> THEN 0
    ELSE SumEffective(AcceptedOf(Head(bs))) + CumulativeOf(Tail(bs))

RECURSIVE AcceptedCountOf(_)
AcceptedCountOf(bs) ==
    IF bs = << >> THEN 0
    ELSE Len(AcceptedOf(Head(bs))) + AcceptedCountOf(Tail(bs))

ConsistentWith(bs, fin_height, fin_hash) ==
    \A i \in 1..Len(bs) :
        ~(/\ fin_hash # None
          /\ DictGet(bs[i], "height", 0) = fin_height
          /\ DictGet(bs[i], "hash", "") # fin_hash)

\* self._candidates[tip_hash] = score: a dict keeps the place of a key it has
CandidatesSet(cands, score) ==
    IF \E i \in 1..Len(cands) : cands[i].tip_hash = score.tip_hash
    THEN [i \in 1..Len(cands) |->
            IF cands[i].tip_hash = score.tip_hash THEN score ELSE cands[i]]
    ELSE Append(cands, score)

\* the last call, the number of blocks it was given and what it returned
SRet(op) == [op |-> op, n |-> 0, out |-> None]

score_chain(tip_hash, height, bs, fin_height, fin_hash) ==
    LET score == ChainScore(tip_hash, height, CumulativeOf(bs),
                            AcceptedCountOf(bs),
                            ConsistentWith(bs, fin_height,
                                           fin_hash))
    IN /\ scored_candidates' = CandidatesSet(scored_candidates, score)
       /\ sret' = [SRet("score_chain") EXCEPT !.n = Len(bs), !.out = score]

Reversed(s) == [i \in 1..Len(s) |-> s[Len(s) + 1 - i]]

\* list.sort() of CPython on fewer than 64 elements: the run at the front
\* (made ascending when it descends strictly), then binary insertion
RECURSIVE AscendingRun(_, _)
AscendingRun(s, n) ==
    IF n < Len(s) /\ ~ScoreLess(s[n + 1], s[n]) THEN AscendingRun(s, n + 1)
    ELSE n

RECURSIVE DescendingRun(_, _)
DescendingRun(s, n) ==
    IF n < Len(s) /\ ScoreLess(s[n + 1], s[n]) THEN DescendingRun(s, n + 1)
    ELSE n

\* where binary search puts the pivot in the sorted front s[1..r]; l and r
\* are the 0-based bounds of the search
RECURSIVE BinaryPlace(_, _, _, _)
BinaryPlace(pivot, s, l, r) ==
    IF l >= r THEN l
    ELSE LET p == l + ((r - l) \div 2)
         IN IF ScoreLess(pivot, s[p + 1]) THEN BinaryPlace(pivot, s, l, p)
            ELSE BinaryPlace(pivot, s, p + 1, r)

\* s with its element at place n + 1 moved into the sorted front s[1..n]
InsertedAt(s, n) ==
    LET l == BinaryPlace(s[n + 1], s, 0, n)
    IN [i \in 1..Len(s) |->
          IF i <= l THEN s[i]
          ELSE IF i = l + 1 THEN s[n + 1]
          ELSE IF i <= n + 1 THEN s[i - 1]
          ELSE s[i]]

RECURSIVE BinarySort(_, _)
BinarySort(s, n) ==
    IF n >= Len(s) THEN s ELSE BinarySort(InsertedAt(s, n), n + 1)

ListSort(s) ==
    IF Len(s) < 2 THEN s
    ELSE IF ScoreLess(s[2], s[1])
    THEN LET n == DescendingRun(s, 2)
         IN BinarySort([i \in 1..Len(s) |->
                           IF i <= n THEN s[n + 1 - i] ELSE s[i]], n)
    ELSE BinarySort(s, AscendingRun(s, 2))

\* sorted(values, reverse=True): reversed, sorted, reversed again
Ranked(cands) == Reversed(ListSort(Reversed(cands)))

select_best ==
    /\ sret' = [SRet("select_best") EXCEPT !.out =
                  IF scored_candidates = << >> THEN None
                  ELSE Ranked(scored_candidates)[1]]
    /\ UNCHANGED scored_candidates

clear ==
    /\ scored_candidates' = << >>
    /\ sret' = SRet("clear")

forkFrame == <<now, earlierVars, rewardVars, rebuildVars, finalityVars, pooVars>>

ScoreChain ==
    /\ \E tip \in TipHashes, hash \in ForkBlockHashes, txs \in ForkTxLists :
       \E fh \in {None, "h1"} :
          score_chain(tip, 1, <<BlockDict(1, hash, txs)>>, 1, fh)
    /\ UNCHANGED <<forkFrame, feeVars, stakeVars, afterFork>>

SelectBest ==
    /\ select_best
    /\ UNCHANGED <<forkFrame, feeVars, stakeVars, afterFork>>

Clear ==
    /\ clear
    /\ UNCHANGED <<forkFrame, feeVars, stakeVars, afterFork>>

ForkInit ==
    /\ scored_candidates = << >>
    /\ sret = SRet("init")

NextFork ==
    \/ ScoreChain
    \/ SelectBest
    \/ Clear

\* the dicts of the transactions and blocks that ProofOfOptimization makes;
\* the payload of an accepted optimae has the key "increment"
TransactionDump(tx) ==
    [id |-> tx.id, tx_type |-> tx.tx_type, domain_id |-> tx.domain_id,
     peer_id |-> tx.peer_id, timestamp |-> tx.timestamp,
     payload |-> IF tx.tx_type = "optimae_accepted"
                 THEN [increment |-> tx.payload]
                 ELSE [request_id |-> tx.payload]]

BlockDump(block) ==
    [header |-> block.header, hash |-> block.hash,
     transactions |-> [i \in 1..Len(block.transactions) |->
                          TransactionDump(block.transactions[i])]]

\* the blocks generated so far are scored as one chain
ScoreGenerated ==
    /\ score_chain("a", Len(blocks) - 1,
                   [i \in 1..Len(blocks) |-> BlockDump(blocks[i])], 0 - 1, None)
    /\ UNCHANGED <<forkFrame, feeVars, stakeVars, afterFork>>

NextPooScore ==
    \/ Tick
    \/ RegisterDomain
    \/ RecordOptimae
    \/ RecordEvaluation
    \/ GenerateBlock
    \/ ScoreGenerated

(***************************************************************************)
(* Difficulty adjustment (consensus/difficulty.py).  Thresholds are        *)
(* integers in units of 0.01, times are integers of which one tick of the  *)
(* clock has TickUnits; products are rounded down.                         *)
(***************************************************************************)
TickUnits == 10
DifficultyTargetBlockTime == 20
DifficultyInitialThreshold == 100
EpochLength == 2
MaxAdjustmentFactor == 4
EmaAlphaDen == 10
MinElapsed == 1
DifficultyMinThreshold == 50
DifficultyMaxThreshold == 1000
PerBlockCorrectionDen == 50

\* the block timestamps that are passed; 0 stands for None as well, which
\* "block_timestamp or time.time()" treats alike
BlockTimestamps == {0, 5, 15, 30, 200}

DifficultyState(thr, start_time, ema, last, in_epoch, adjustments) ==
    [current_threshold |-> thr, target_block_time |-> DifficultyTargetBlockTime,
     epoch_start_time |-> start_time, ema_block_time |-> ema,
     last_block_time |-> last, blocks_in_epoch |-> in_epoch,
     total_adjustments |-> adjustments]

\* the threshold left as it is
Unbounded(thr) == thr

\* max(MIN_THRESHOLD, min(MAX_THRESHOLD, threshold))
Bounded(thr) == Max(DifficultyMinThreshold, Min(DifficultyMaxThreshold, thr))

\* the state after _apply_per_block_correction
apply_per_block_correction(st) ==
    IF st.ema_block_time <= 0 THEN st
    ELSE LET ema == st.ema_block_time
             off == st.target_block_time - ema
             thr == st.current_threshold
             corrected ==
                 IF off * PerBlockCorrectionDen >= ema
                 THEN (thr * (PerBlockCorrectionDen + 1))
                          \div PerBlockCorrectionDen
                 ELSE IF off * PerBlockCorrectionDen <= 0 - ema
                 THEN (thr * (PerBlockCorrectionDen - 1))
                          \div PerBlockCorrectionDen
                 ELSE (thr * st.target_block_time) \div ema
         IN [st EXCEPT !.current_threshold = Bounded(corrected)]

\* the state after _reset_epoch(now)
reset_epoch(st, t) ==
    [st EXCEPT !.epoch_start_time = t, !.blocks_in_epoch = 0]

\* the state after _epoch_adjustment(now)
epoch_adjustment(st, t) ==
    LET actual_epoch_time == t - st.epoch_start_time
        target_epoch_time == EpochLength * st.target_block_time
        thr == st.current_threshold
        adjusted ==
            IF target_epoch_time >= MaxAdjustmentFactor * actual_epoch_time
            THEN thr * MaxAdjustmentFactor
            ELSE IF target_epoch_time * MaxAdjustmentFactor <= actual_epoch_time
            THEN thr \div MaxAdjustmentFactor
            ELSE (thr * target_epoch_time) \div actual_epoch_time
    IN IF actual_epoch_time <= 0 \/ target_epoch_time <= 0
       THEN reset_epoch(st, t)
       ELSE reset_epoch([st EXCEPT
                !.current_threshold = Bounded(adjusted),
                !.total_adjustments = st.total_adjustments + 1], t)

\* the state after on_new_block(block_index, block_timestamp)
AfterNewBlock(st, block_timestamp) ==
    LET t == IF block_timestamp = 0
             THEN now * TickUnits ELSE block_timestamp
        elapsed == Max(MinElapsed, t - st.last_block_time)
        ema == (elapsed + (EmaAlphaDen - 1) * st.ema_block_time) \div EmaAlphaDen
        corrected == apply_per_block_correction([st EXCEPT !.ema_block_time = ema])
        tracked == [corrected EXCEPT
                       !.blocks_in_epoch = corrected.blocks_in_epoch + 1,
                       !.last_block_time = t]
    IN IF tracked.blocks_in_epoch >= EpochLength
       THEN epoch_adjustment(tracked, t)
       ELSE tracked

\* the last on_new_block call: the threshold it returned, whether it closed
\* an epoch, the threshold at the start of the epoch the block was in, and
\* the number of calls so far
DRet(op, out, closed, start, calls) ==
    [op |-> op, out |-> out, epoch_closed |-> closed,
     epoch_threshold |-> start, calls |-> calls]

difficulty_on_new_block(block_timestamp) ==
    LET st == AfterNewBlock(difficulty_state, block_timestamp)
        closed == difficulty_state.blocks_in_epoch + 1 >= EpochLength
    IN /\ dret.calls < MaxDifficultyBlocks
       /\ difficulty_state' = st
       /\ epoch_threshold' = IF closed THEN st.current_threshold
                             ELSE epoch_threshold
       /\ dret' = DRet("on_new_block", st.current_threshold, closed,
                       epoch_threshold, dret.calls + 1)

DifficultyOnNewBlock ==
    /\ \E ts \in BlockTimestamps : difficulty_on_new_block(ts)
    /\ UNCHANGED <<forkFrame, feeVars, stakeVars, forkVars, afterDiff>>

DifficultyInit ==
    /\ difficulty_state = DifficultyState(DifficultyInitialThreshold,
           TickUnits, DifficultyTargetBlockTime, TickUnits, 0, 0)
    /\ epoch_threshold = DifficultyInitialThreshold
    /\ dret = DRet("init", DifficultyInitialThreshold, FALSE,
                   DifficultyInitialThreshold, 0)

NextDifficulty ==
    \/ Tick
    \/ DifficultyOnNewBlock

(***************************************************************************)
(* Task queue (models/task.py)                                             *)
(***************************************************************************)
TaskIds == {"t1", "t2"}
TaskEvaluators == {"e1", "e2"}
VerifiedPerformances == {"p1", "p2"}

\* Task(...) as it is constructed: pending, no evaluator, no result
Task == [status |-> "pending", evaluator_id |-> None, verified_performance |-> None]

\* the task after Task.claim(evaluator_id)
TaskClaimed(task, evaluator_id) ==
    [task EXCEPT !.status = "claimed", !.evaluator_id = evaluator_id]

\* the task after Task.complete(verified_performance)
TaskCompleted(task, verified_performance) ==
    [task EXCEPT !.status = "completed",
                 !.verified_performance = verified_performance]

TRet(op, task_id, evaluator_id, out) ==
    [op |-> op, task_id |-> task_id, evaluator_id |-> evaluator_id, out |-> out]

taskFrame == <<forkFrame, feeVars, stakeVars, forkVars, diffVars>>

\* TaskQueue.add(task) with a task of the given id
add(task_id) ==
    /\ tasks' = DictSet(tasks, task_id, Task)
    /\ tret' = TRet("add", task_id, None, None)
    /\ UNCHANGED <<claimers, taskFrame>>

\* TaskQueue.claim(task_id, evaluator_id); out is the id of the task returned
claim(task_id, evaluator_id) ==
    /\ IF task_id \notin DOMAIN tasks \/ tasks[task_id].status # "pending"
       THEN /\ tret' = TRet("claim", task_id, evaluator_id, None)
            /\ UNCHANGED tasks
       ELSE /\ tasks' = [tasks EXCEPT ![task_id] = TaskClaimed(@, evaluator_id)]
            /\ tret' = TRet("claim", task_id, evaluator_id, task_id)
    /\ UNCHANGED <<claimers, taskFrame>>

\* TaskQueue.complete(task_id, verified_performance)
complete(task_id, verified_performance) ==
    /\ IF task_id \notin DOMAIN tasks \/ tasks[task_id].status # "claimed"
       THEN /\ tret' = TRet("complete", task_id, None, None)
            /\ UNCHANGED tasks
       ELSE /\ tasks' = [tasks EXCEPT
                           ![task_id] = TaskCompleted(@, verified_performance)]
            /\ tret' = TRet("complete", task_id, None, task_id)
    /\ UNCHANGED <<claimers, taskFrame>>

TaskAdd == \E id \in TaskIds : add(id)
TaskClaim == \E id \in TaskIds, e \in TaskEvaluators : claim(id, e)
TaskComplete == \E id \in TaskIds, p \in VerifiedPerformances : complete(id, p)

\* TaskQueue.claim run by two evaluators at once, statement by statement:
\* the look-up and the status test, then the two assignments of Task.claim
ClaimFrame(pc, task_id, out) == [pc |-> pc, task_id |-> task_id, out |-> out]

\* a task is added under an id the queue does not hold
AddOnce ==
    \E id \in TaskIds :
        /\ id \notin DOMAIN tasks
        /\ add(id)

\* task = self.tasks.get(task_id);
\* if task is None or task.status != TaskStatus.PENDING: return None
ClaimTest(e) ==
    \E id \in TaskIds :
        /\ claimers[e].pc = "idle"
        /\ claimers' = [claimers EXCEPT ![e] =
              IF id \notin DOMAIN tasks \/ tasks[id].status # "pending"
              THEN ClaimFrame("done", id, None)
              ELSE ClaimFrame("tested", id, None)]
        /\ UNCHANGED <<tasks, tret, taskFrame>>

\* self.status = TaskStatus.CLAIMED
ClaimSetStatus(e) ==
    /\ claimers[e].pc = "tested"
    /\ tasks' = [tasks EXCEPT ![claimers[e].task_id].status = "claimed"]
    /\ claimers' = [claimers EXCEPT ![e].pc = "status_set"]
    /\ UNCHANGED <<tret, taskFrame>>

\* self.evaluator_id = evaluator_id; return task
ClaimSetEvaluator(e) ==
    /\ claimers[e].pc = "status_set"
    /\ tasks' = [tasks EXCEPT ![claimers[e].task_id].evaluator_id = e]
    /\ claimers' = [claimers EXCEPT ![e] =
                      ClaimFrame("done", claimers[e].task_id, claimers[e].task_id)]
    /\ UNCHANGED <<tret, taskFrame>>

ClaimStep ==
    \E e \in TaskEvaluators :
        \/ ClaimTest(e)
        \/ ClaimSetStatus(e)
        \/ ClaimSetEvaluator(e)

TaskInit ==
    /\ tasks = << >>
    /\ tret = TRet("init", None, None, None)
    /\ claimers = [e \in TaskEvaluators |-> ClaimFrame("idle", None, None)]

NextTask ==
    \/ TaskAdd
    \/ TaskClaim
    \/ TaskComplete

NextTaskConc ==
    \/ AddOnce
    \/ ClaimStep

(***************************************************************************)
(* Specifications                                                          *)
(***************************************************************************)
Init ==
    /\ ChanInit
    /\ QuorumInit
    /\ CommitInit
    /\ CoinInit
    /\ RewardInit
    /\ RebuildInit
    /\ FinalityInit
    /\ PooInit
    /\ FeeInit
    /\ StakeInit
    /\ ForkInit
    /\ DifficultyInit
    /\ TaskInit

Spec == Init /\ [][Next]_vars

SpecOpen == Init /\ [][NextOpen]_vars

SpecLocked == Init /\ [][NextLocked]_vars

SpecConc == Init /\ [][NextConc]_vars

SpecQuorum == Init /\ [][NextQuorum]_vars

SpecCommit == Init /\ [][NextCommit]_vars

SpecCoin == Init /\ [][NextCoin]_vars

InitReward ==
    /\ ChanInit
    /\ QuorumInit
    /\ CommitInit
    /\ CoinInit
    /\ RewardCalls
    /\ RebuildInit
    /\ FinalityInit
    /\ PooInit
    /\ FeeInit
    /\ StakeInit
    /\ ForkInit
    /\ DifficultyInit
    /\ TaskInit

SpecReward == InitReward /\ [][NextReward]_vars

InitRebuild ==
    /\ ChanInit
    /\ QuorumInit
    /\ CommitInit
    /\ CoinInit
    /\ RewardInit
    /\ Chains
    /\ FinalityInit
    /\ PooInit
    /\ FeeInit
    /\ StakeInit
    /\ ForkInit
    /\ DifficultyInit
    /\ TaskInit

SpecRebuild == InitRebuild /\ [][NextRebuild]_vars

SpecFinality == Init /\ [][NextFinality]_vars

SpecPoo == Init /\ [][NextPoo]_vars

SpecFeeBase == Init /\ [][NextFeeBase]_vars

SpecRate == Init /\ [][NextRate]_vars

SpecMempool == Init /\ [][NextMempool]_vars

SpecStake == Init /\ [][NextStake]_vars

SpecFork == Init /\ [][NextFork]_vars

SpecPooScore == Init /\ [][NextPooScore]_vars

SpecDifficulty == Init /\ [][NextDifficulty]_vars

SpecTask == Init /\ [][NextTask]_vars

SpecTaskConc == Init /\ [][NextTaskConc]_vars

\* the quorum manager with passing time; time passes and the periodic sweep
\* of decided quorums runs
SpecQuorumWait ==
    /\ Init
    /\ [][NextQuorumWait]_vars
    /\ WF_vars(Tick)
    /\ WF_vars(cleanup_decided)

(***************************************************************************)
(* Properties of the payment channels                                      *)
(***************************************************************************)
RECURSIVE SumOver(_, _)
SumOver(S, f) ==
    IF S = {} THEN 0
    ELSE LET c == CHOOSE x \in S : TRUE IN f[c] + SumOver(S \ {c}, f)

Participants(ch) == {ch.sender_id, ch.receiver_id}

\* C1: every channel that is not closed has
\* sender_balance + receiver_balance = deposit.
C1_BalancesSumToDeposit ==
    \A c \in DOMAIN channels :
        channels[c].state # "closed" =>
            channels[c].sender_balance + channels[c].receiver_balance
                = channels[c].deposit

\* C2: a disputed channel stays disputed as long as the time of the call is
\* before its dispute_deadline: no call closes or settles it earlier.
C2_DisputedUntilDeadline ==
    [][\A c \in DOMAIN channels :
          (channels[c].state = "disputed" /\ now' < channels[c].dispute_deadline)
              => channels'[c].state = "disputed"]_vars

\* C3: dispute is accepted only from a participant, on a channel that is not
\* closed, with a nonce strictly above the channel's and balances that sum to
\* the deposit; a rejected dispute changes nothing; the nonce never decreases.
C3_DisputeContract ==
    [][/\ (ret'.op = "dispute" /\ now' = now) =>
             IF ret'.ok
             THEN /\ ret'.cid \in DOMAIN channels
                  /\ ret'.peer \in Participants(channels[ret'.cid])
                  /\ channels[ret'.cid].state # "closed"
                  /\ channels'[ret'.cid].nonce > channels[ret'.cid].nonce
                  /\ channels'[ret'.cid].sender_balance
                       + channels'[ret'.cid].receiver_balance
                       = channels[ret'.cid].deposit
             ELSE UNCHANGED chanVars
       /\ \A c \in DOMAIN channels : channels'[c].nonce >= channels[c].nonce]_vars

\* C4: resolve_disputes settles exactly the disputed channels whose deadline
\* has been reached, with the balances of the last accepted dispute update
\* (refund = its sender_balance, fee = its receiver_balance x fee fraction,
\* payout = receiver_balance - fee), and leaves every other channel untouched.
C4_ResolveSettlesDue ==
    [][(ret'.op = "resolve_disputes" /\ now' = now) =>
          /\ \A c \in DOMAIN channels :
                LET ch == channels[c]
                    u == ch.latest_update
                IN IF ch.state = "disputed" /\ now >= ch.dispute_deadline
                   THEN /\ channels'[c] = [ch EXCEPT !.state = "closed"]
                        /\ u.nonce = ch.nonce
                        /\ \E i \in 1..Len(ret'.out) :
                              /\ ret'.out[i].channel_id = c
                              /\ ret'.out[i].sender_refund = u.sender_balance
                              /\ ret'.out[i].fee
                                   = u.receiver_balance * SettlementFeeNum
                              /\ ret'.out[i].receiver_payout
                                   = u.receiver_balance * SettlementFeeDen
                                       - ret'.out[i].fee
                   ELSE channels'[c] = ch
          /\ Len(ret'.out) =
                Cardinality({c \in DOMAIN channels :
                                /\ channels[c].state = "disputed"
                                /\ now >= channels[c].dispute_deadline})]_vars

\* a dispute at nonce 2 or more was resolved with a non-zero fee
C4_Witness ==
    /\ ret.op = "resolve_disputes"
    /\ Len(ret.out) = 1
    /\ ret.out[1].nonce >= 2
    /\ ret.out[1].fee > 0
    /\ channels[ret.out[1].channel_id].state = "closed"

\* C5: pay succeeds only on an existing, open, unexpired channel, called by
\* its sender with 0 < amount <= sender_balance; then amount moves from the
\* sender's to the receiver's balance and the nonce grows by 1; a failed pay
\* changes nothing.
C5_PayContract ==
    [][(ret'.op = "pay" /\ now' = now) =>
          IF ret'.ok
          THEN /\ ret'.cid \in DOMAIN channels
               /\ LET ch == channels[ret'.cid]
                      ch2 == channels'[ret'.cid]
                      a == ret'.amt
                  IN /\ ch.state = "open"
                     /\ ~(ch.expires_at > 0 /\ now > ch.expires_at)
                     /\ ret'.peer = ch.sender_id
                     /\ a > 0
                     /\ a <= ch.sender_balance
                     /\ ch2.sender_balance = ch.sender_balance - a
                     /\ ch2.receiver_balance = ch.receiver_balance + a
                     /\ ch2.nonce = ch.nonce + 1
                     /\ ch2.state = "open"
          ELSE UNCHANGED chanVars]_vars

\* a second payment has been accepted
C5_Witness ==
    /\ ret.op = "pay"
    /\ ret.ok
    /\ channels[ret.cid].nonce = 2
    /\ channels[ret.cid].receiver_balance = 2

\* C6: a closed channel never changes again, and total_locked and total_fees
\* move only by the deposit and the fee of a channel at the step that closes
\* it (and by the deposit of a channel at the step that opens it), so a
\* channel is settled at most once.
C6_ClosedIsTerminal ==
    [][LET closing == {c \in DOMAIN channels :
                          /\ channels[c].state # "closed"
                          /\ channels'[c].state = "closed"}
           opened == DOMAIN channels' \ DOMAIN channels
       IN /\ \A c \in DOMAIN channels :
                channels[c].state = "closed" => channels'[c] = channels[c]
          /\ total_locked' =
                total_locked
                + SumOver(opened, [c \in opened |-> channels'[c].deposit])
                - SumOver(closing, [c \in closing |-> channels[c].deposit])
          /\ total_fees' =
                total_fees
                + SumOver(closing, [c \in closing |->
                     channels[c].receiver_balance * SettlementFeeNum])]_vars

\* a call on a closed channel has been refused
C6_Witness ==
    /\ ret.op \in {"close_channel", "dispute", "pay"}
    /\ ~ret.ok
    /\ \E c \in DOMAIN channels :
          /\ channels[c].state = "closed"
          /\ channels[c].receiver_balance > 0
    /\ total_locked = 0

\* C7: no peer is sender or receiver of more than max_channels_per_peer
\* channels.
C7_PerPeerCap ==
    \A p \in Peers :
        Cardinality({c \in DOMAIN channels :
                        p \in Participants(channels[c])}) <= MaxChannelsPerPeer

\* C8: a reader running beside pay never sees a channel that is not closed
\* with sender_balance + receiver_balance # deposit.
C8_ReaderSeesWholePayments ==
    observed # << >> =>
        (observed.state # "closed" =>
            observed.sender_balance + observed.receiver_balance
                = observed.deposit)

(***************************************************************************)
(* Properties of the quorum selection                                      *)
(***************************************************************************)
\* C9: the list select_evaluators returns never contains the optimizer, has
\* only eligible evaluators, and has exactly min(min_evaluators, number of
\* eligible entries other than the optimizer) entries, which are distinct
\* when the eligible entries are.
C9_SelectionShape ==
    qret.op = "select_evaluators" =>
        LET sel == qret.out
            el == qret.eligible
            others == {j \in 1..Len(el) : el[j] # qret.optimizer}
        IN /\ qret.optimizer \notin SeqRange(sel)
           /\ SeqRange(sel) \subseteq SeqRange(el)
           /\ Len(sel) = Min(MinEvaluators, Cardinality(others))
           /\ (others = {}) => sel = << >>
           /\ Cardinality(SeqRange(el)) = Len(el)
                 => Cardinality(SeqRange(sel)) = Len(sel)

\* the optimizer was eligible, with more other candidates than min_evaluators
C9_Witness ==
    /\ qret.op = "select_evaluators"
    /\ qret.optimizer \in SeqRange(qret.eligible)
    /\ Len(qret.eligible) = 3
    /\ Len(qret.out) = 2

\* the lists with the entries of el in any order
PermutationsOf(el) ==
    {[i \in 1..Len(el) |-> el[f[i]]] :
        f \in {g \in [1..Len(el) -> 1..Len(el)] :
                  \A i, j \in 1..Len(el) : g[i] = g[j] => i = j}}

\* C10: the list select_evaluators returns, whatever the manager did before,
\* is the one any manager returns for the same chain_tip_hash, optimae_id and
\* optimizer_id and the same eligible evaluators listed in any order.
C10_SelectionDeterministic ==
    qret.op = "select_evaluators" =>
        \A p \in PermutationsOf(qret.eligible) :
            Selected(p, qret.optimizer, qret.tip, qret.oid) = qret.out

\* a manager that already held a quorum selected, from three distinct
\* evaluators, not the first two it was given
C10_Witness ==
    /\ qret.op = "select_evaluators"
    /\ qret.replaced
    /\ Cardinality(SeqRange(qret.eligible)) = 3
    /\ Len(qret.out) = 2
    /\ qret.out # SubSeq(qret.eligible, 1, 2)

(***************************************************************************)
(* Properties of the vote intake and of the decision                       *)
(***************************************************************************)
\* the voters of a quorum are pairwise distinct, are all required
\* evaluators, and are no more than the required evaluators
VotersWellFormed(st) ==
    /\ \A i, j \in 1..Len(st.votes) :
          st.votes[i].evaluator_id = st.votes[j].evaluator_id => i = j
    /\ voter_ids(st) \subseteq SeqRange(st.required_evaluators)
    /\ Len(st.votes) <= Len(st.required_evaluators)

\* C11: add_vote records a vote exactly when the quorum of the optimae
\* exists, is not decided, the voter is a required evaluator and has not
\* voted; the recorded vote is appended and nothing else changes; so in every
\* state the voters of a quorum are pairwise distinct required evaluators and
\* are no more than the required evaluators.
C11_VoteIntake ==
    /\ [](\A o \in DOMAIN pending : VotersWellFormed(pending[o]))
    /\ [][(qret'.op = "add_vote") =>
            LET o == qret'.oid
                e == qret'.evaluator
                allowed == /\ o \in DOMAIN pending
                           /\ ~pending[o].decided
                           /\ \E i \in 1..Len(pending[o].required_evaluators) :
                                 pending[o].required_evaluators[i] = e
                           /\ \A i \in 1..Len(pending[o].votes) :
                                 pending[o].votes[i].evaluator_id # e
            IN IF allowed
               THEN /\ DOMAIN pending' = DOMAIN pending
                    /\ \A x \in DOMAIN pending \ {o} : pending'[x] = pending[x]
                    /\ Len(pending'[o].votes) = Len(pending[o].votes) + 1
                    /\ SubSeq(pending'[o].votes, 1, Len(pending[o].votes))
                          = pending[o].votes
                    /\ pending'[o].votes[Len(pending'[o].votes)].evaluator_id = e
                    /\ [pending'[o] EXCEPT !.votes = << >>]
                          = [pending[o] EXCEPT !.votes = << >>]
               ELSE pending' = pending]_vars

\* the last required evaluator has voted, after a vote with another
\* performance: add_vote returned the quorum
C11_Witness ==
    /\ qret.op = "add_vote"
    /\ qret.out # << >>
    /\ qret.oid \in DOMAIN pending
    /\ Len(pending[qret.oid].votes) = MinEvaluators
    /\ pending[qret.oid].votes[1].verified_performance
          # pending[qret.oid].votes[2].verified_performance


\* C12: a quorum is decided only with at least K votes, K the number of
\* required evaluators, and evaluate_quorum never accepts on fewer.
C12_DecidedOnlyWithQuorum ==
    /\ \A o \in DOMAIN pending :
          pending[o].decided =>
              Len(pending[o].votes) >= Len(pending[o].required_evaluators)
    /\ (qret.op = "evaluate_quorum" /\ qret.out.accepted) =>
          /\ qret.oid \in DOMAIN pending
          /\ qret.out.vote_count
                >= Len(pending[qret.oid].required_evaluators)

\* C13: deciding a quorum with votes, evaluate_quorum accepts iff
\* (votes within tolerance of the median) / K >= quorum_fraction, K the
\* number of required evaluators, and the reported performance is within
\* tolerance of the median; it rejects with "quorum disagreement" when the
\* fraction is too low and with "report diverges from median" otherwise; the
\* agreement flag of each voter says whether its vote is within tolerance.
C13_DecisionRule ==
    [][(/\ qret'.op = "evaluate_quorum"
        /\ qret'.oid \in DOMAIN pending
        /\ pending[qret'.oid].votes # << >>) =>
          LET st == pending[qret'.oid]
              K == Len(st.required_evaluators)
              median2 == Median2([i \in 1..Len(st.votes) |->
                                     st.votes[i].verified_performance])
              agreed == {i \in 1..Len(st.votes) :
                            WithinTolerance(st.votes[i].verified_performance,
                                            median2)}
              enough == Cardinality(agreed) * QuorumFractionDen
                           >= QuorumFractionNum * K
              report_matches == WithinTolerance(st.reported_performance, median2)
              res == qret'.out
          IN /\ res.accepted <=> (enough /\ report_matches)
             /\ res.reason = IF enough /\ report_matches THEN "accepted"
                             ELSE IF ~enough THEN "quorum disagreement"
                             ELSE "report diverges from median"
             /\ DOMAIN res.agreements = voter_ids(st)
             /\ \A i \in 1..Len(st.votes) :
                   res.agreements[st.votes[i].evaluator_id] <=> (i \in agreed)
             /\ pending'[qret'.oid].decided
             /\ pending'[qret'.oid].accepted = res.accepted]_vars

\* a quorum without its K votes
Waiting(o) ==
    /\ o \in DOMAIN pending
    /\ ~pending[o].decided
    /\ Len(pending[o].votes) < Len(pending[o].required_evaluators)

\* C14: a quorum that is still without its K votes more than max_wait_seconds
\* after its selection (every selection is made at time 1) does not stay so
\* for ever: it is abandoned.
C14_WaitingQuorumAbandoned ==
    \A o \in OptimaeIds :
        [](((now > 1 + MaxWaitSeconds) /\ Waiting(o)) => <>(~Waiting(o)))


(***************************************************************************)
(* Properties of the commit-reveal protocol                                *)
(***************************************************************************)
\* C15: process_reveal returns True exactly when a commitment is registered
\* under the hash of the reveal, is neither revealed nor expired, is not
\* older than max_commit_age, the hash computed from the parameters and the
\* nonce of the reveal is the hash of the commitment, and optimizer_id and
\* domain_id are those of the commitment; it then marks the commitment
\* revealed; a hash is registered only by a successful add_commitment.
C15_RevealContract ==
    [][/\ (cret'.op = "process_reveal" /\ now' = now) =>
             LET h == cret'.hash IN
             /\ cret'.ok <=>
                   /\ h \in DOMAIN commitments
                   /\ ~commitments[h].revealed
                   /\ ~commitments[h].expired
                   /\ now - commitments[h].timestamp <= MaxCommitAge
                   /\ compute_commitment(cret'.parameters, cret'.nonce)
                         = commitments[h].commitment_hash
                   /\ cret'.optimizer = commitments[h].optimizer_id
                   /\ cret'.domain = commitments[h].domain_id
             /\ cret'.ok => commitments'[h].revealed
       /\ \A h \in DOMAIN commitments' \ DOMAIN commitments :
             /\ cret'.op = "add_commitment"
             /\ cret'.ok
             /\ cret'.hash = h
             /\ commitments'[h].commitment_hash = h]_vars

\* a commitment of dave, max_commit_age old, has been revealed
C15_Witness ==
    /\ cret.op = "process_reveal"
    /\ cret.ok
    /\ cret.optimizer = "dave"
    /\ commitments[cret.hash].revealed
    /\ commitments[cret.hash].timestamp + MaxCommitAge = now

\* C16: process_reveal returns True at most once for a commitment hash,
\* whatever calls of add_commitment, process_reveal, has_valid_commitment and
\* cleanup_expired are made.
C16_SingleReveal ==
    [][(/\ cret'.op = "process_reveal"
        /\ cret'.ok
        /\ commitments' # commitments) =>
            cret'.hash \notin revealed_hashes]_vars

\* C17: a stored commitment that is expired or older than max_commit_age is
\* not revealed by any call and stays expired or too old as long as it is
\* stored; cleanup_expired removes exactly the commitments that are revealed,
\* expired or older than max_commit_age, returns their number, and leaves
\* the others as they are: unrevealed, unexpired and young enough to be
\* revealed.
C17_ExpiryAndCleanup ==
    [][/\ \A h \in DOMAIN commitments :
             (\/ commitments[h].expired
              \/ now - commitments[h].timestamp > MaxCommitAge) =>
                /\ ~(cret'.op = "process_reveal" /\ now' = now
                        /\ cret'.hash = h /\ cret'.ok)
                /\ h \in DOMAIN commitments' =>
                      /\ commitments'[h].revealed = commitments[h].revealed
                      /\ \/ commitments'[h].expired
                         \/ now' - commitments'[h].timestamp > MaxCommitAge
       /\ (cret'.op = "cleanup_expired" /\ now' = now) =>
             /\ DOMAIN commitments' =
                   {h \in DOMAIN commitments :
                       ~(\/ commitments[h].revealed
                         \/ commitments[h].expired
                         \/ now - commitments[h].timestamp > MaxCommitAge)}
             /\ \A h \in DOMAIN commitments' :
                   /\ commitments'[h] = commitments[h]
                   /\ ~commitments'[h].revealed
                   /\ ~commitments'[h].expired
                   /\ now - commitments'[h].timestamp <= MaxCommitAge
             /\ cret'.n = Cardinality(DOMAIN commitments \ DOMAIN commitments')
      ]_vars

\* no reveal has succeeded; the sweep removed one commitment and kept one
\* that is max_commit_age old
C17_Witness ==
    /\ cret.op = "cleanup_expired"
    /\ cret.n = 1
    /\ revealed_hashes = {}
    /\ \E h \in DOMAIN commitments :
          /\ DOMAIN commitments = {h}
          /\ commitments[h].timestamp + MaxCommitAge = now
          /\ ~commitments[h].expired

(***************************************************************************)
(* Properties of the balance tracker                                       *)
(***************************************************************************)
\* C18: a transfer with a positive amount and a sender balance of at least
\* amount + fee is applied exactly when its nonce is the sender's last nonce
\* + 1; every applied transfer has that nonce, which becomes the sender's
\* last nonce; a rejected transfer leaves the nonces as they are.
C18_NonceStrict ==
    [][(bret'.op = "apply_transfer") =>
          LET s == bret'.sender
              last == IF s \in DOMAIN nonces THEN nonces[s] ELSE 0
              bal == IF s \in DOMAIN balances THEN balances[s] ELSE 0
          IN /\ (bret'.amount > 0 /\ bal >= bret'.amount + bret'.fee) =>
                   (bret'.ok <=> bret'.nonce = last + 1)
             /\ bret'.ok => /\ bret'.nonce = last + 1
                            /\ nonces'[s] = bret'.nonce
             /\ ~bret'.ok => nonces' = nonces]_vars

\* C19: a rejected apply_transfer leaves balances, nonces and total_minted
\* unchanged; the transfer of the previous call, applied again, is rejected
\* and changes nothing.
C19_RejectedChangesNothing ==
    [][(bret'.op = "apply_transfer") =>
          /\ ~bret'.ok => UNCHANGED <<balances, nonces, total_minted>>
          /\ (/\ bret.op = "apply_transfer"
              /\ bret'.sender = bret.sender
              /\ bret'.recipient = bret.recipient
              /\ bret'.amount = bret.amount
              /\ bret'.fee = bret.fee
              /\ bret'.nonce = bret.nonce) =>
                /\ ~bret'.ok
                /\ UNCHANGED <<balances, nonces, total_minted>>]_vars

\* a transfer that the sender could pay, with the nonce it used last, has
\* been rejected
C19_Witness ==
    /\ bret.op = "apply_transfer"
    /\ ~bret.ok
    /\ bret.amount > 0
    /\ bret.fee >= 0
    /\ get_balance(bret.sender) >= bret.amount + bret.fee
    /\ get_nonce(bret.sender) = bret.nonce

\* C20: after coinbases with non-negative outputs and transfers with any
\* amount, fee and nonce, no balance is negative.
C20_BalancesNonNegative ==
    \A p \in DOMAIN balances : balances[p] >= 0

(***************************************************************************)
(* Properties of the reward distribution                                   *)
(***************************************************************************)
\* C21: for every block height, contributor list and tx_fees >= 0 the
\* outputs of distribute_block_reward sum to block_reward + tx_fees, up to
\* dust below MIN_REWARD, and never to more.
C21_CoinbaseClosure ==
    coinbase.op = "distribute_block_reward" =>
        LET paid == SumAmounts(coinbase.out.outputs)
            due == coinbase.out.block_reward + coinbase.tx_fees
        IN /\ paid <= due
           /\ due - paid < MinReward

\* C22: rebuild_from_chain on the coinbases and transfers of a chain leaves
\* the balances, nonces and total_minted that applying them one by one in
\* chain order to a fresh tracker leaves.
C22_RebuildEqualsReplay ==
    bret.op = "rebuild_from_chain" =>
        Tracker(balances, nonces, total_minted) = Replayed(FreshTracker, chain)

(***************************************************************************)
(* Properties of finality                                                  *)
(***************************************************************************)
\* the height of the last checkpoint of a list, -1 for the empty list
FinalizedOf(cps) == IF cps = << >> THEN 0 - 1 ELSE cps[Len(cps)].block_height

RECURSIVE MaxCheckpointHeight(_)
MaxCheckpointHeight(cps) ==
    IF cps = << >> THEN 0 - 1
    ELSE IF Len(cps) = 1 THEN cps[1].block_height
    ELSE LET m == MaxCheckpointHeight(Tail(cps))
         IN IF Head(cps).block_height > m THEN Head(cps).block_height ELSE m

\* C24: is_reorg_allowed(reorg_depth, chain_height) is true iff
\* chain_height - reorg_depth is above the finalized height; so whatever
\* checkpoints were made, an allowed reorg reverts only blocks above every
\* checkpoint.
C24_ReorgBound ==
    fret.op = "is_reorg_allowed" =>
        LET reorg_to == fret.height - fret.depth
            allowed == fret.out[1]
        IN /\ allowed <=> reorg_to > FinalizedOf(checkpoints)
           /\ allowed => \A i \in 1..Len(checkpoints) :
                            checkpoints[i].block_height < reorg_to + 1
           /\ FinalizedOf(checkpoints) = MaxCheckpointHeight(checkpoints)

\* with an explicit and a later implicit checkpoint, a reorg to exactly the
\* finalized height was refused
C24_Witness ==
    /\ fret.op = "is_reorg_allowed"
    /\ ~fret.out[1]
    /\ Len(checkpoints) >= 2
    /\ checkpoints[1].source = "explicit"
    /\ checkpoints[Len(checkpoints)].source = "implicit"
    /\ fret.height - fret.depth = checkpoints[Len(checkpoints)].block_height

(***************************************************************************)
(* Properties of block generation                                          *)
(***************************************************************************)
\* the transactions of two different blocks made so far are different
\* Transaction objects
NoTransactionTwice(bs) ==
    \A i, j \in 1..Len(bs) :
        i # j => \A a \in 1..Len(bs[i].transactions),
                    b \in 1..Len(bs[j].transactions) :
                     bs[i].transactions[a].seq # bs[j].transactions[b].seq

\* C25: generate_block emits a block iff the sum of the pending increments
\* is at least the threshold; the block has the parent's index plus one and
\* the parent's hash as previous_hash and holds exactly the pending
\* transactions, and afterwards nothing is pending, so that no recorded
\* transaction is in two blocks; below the threshold it returns None and
\* changes no state.
C25_GenerateBlock ==
    [][(pret'.op = "generate_block" /\ now' = now) =>
          LET emitted == pret'.out # << >>
              parent == pret'.parent[1]
              block == pret'.out[1]
          IN /\ emitted <=> weighted_sum >= threshold
             /\ emitted =>
                  /\ block.header.index = parent.header.index + 1
                  /\ block.header.previous_hash = parent.hash
                  /\ block.transactions = pending_transactions
                  /\ pending_increments' = << >>
                  /\ pending_transactions' = << >>
                  /\ NoTransactionTwice(blocks')
             /\ ~emitted =>
                  UNCHANGED <<threshold, last_block_time, pending_increments,
                              pending_transactions, domains, blocks>>]_vars

\* a second block was emitted, at a weighted sum equal to the threshold, and
\* both emitted blocks hold a transaction
C25_Witness ==
    /\ pret.op = "generate_block"
    /\ pret.out # << >>
    /\ Len(blocks) = 3
    /\ pret.out[1].transactions # << >>
    /\ blocks[2].transactions # << >>
    /\ pret.out[1].header.weighted_performance_sum =
           pret.out[1].header.threshold

\* a CoinbaseTransaction, among the transactions of a block
IsCoinbase(tx) == "outputs" \in DOMAIN tx

\* C26: every block that generate_block made has exactly one coinbase
\* transaction, and it is the first transaction of the block.
C26_CoinbaseFirst ==
    \A i \in 2..Len(blocks) :
        LET txs == blocks[i].transactions
        IN /\ txs # << >>
           /\ IsCoinbase(txs[1])
           /\ \A k \in 2..Len(txs) : ~IsCoinbase(txs[k])

(***************************************************************************)
(* Properties of the fee market                                            *)
(***************************************************************************)
\* C27: the base fee starts at min_base_fee and stays within
\* [min_base_fee, max_base_fee] over adjust_base_fee calls; a block of
\* exactly target_block_size transactions leaves it unchanged, a fuller
\* block never lowers it and an emptier block never raises it.
C27_BaseFeeBounded ==
    /\ base_fee = MinBaseFee
    /\ [][/\ MinBaseFee <= base_fee' /\ base_fee' <= MaxBaseFee
          /\ mret'.op = "adjust_base_fee" =>
               /\ mret'.n = TargetBlockSize => base_fee' = base_fee
               /\ mret'.n > TargetBlockSize => base_fee' >= base_fee
               /\ mret'.n < TargetBlockSize => base_fee' <= base_fee]_vars

\* an overfull block met the cap at max_base_fee
C27_Witness ==
    /\ mret.op = "adjust_base_fee"
    /\ mret.n > TargetBlockSize
    /\ base_fee = MaxBaseFee

\* the position of an id in a sequence of ids
PositionOf(order, id) == CHOOSE i \in 1..Len(order) : order[i] = id

\* C28: get_block_transactions returns transactions by non-increasing fee,
\* those of equal fee in the order they entered the mempool; every
\* transaction left in the mempool has a fee no higher than every returned
\* one; the returned transactions are removed from the mempool.
C28_FeePriority ==
    [][(mret'.op = "get_block_transactions" /\ now' = now) =>
          LET out == mret'.out IN
          /\ \A i, j \in 1..Len(out) :
                i < j =>
                   /\ out[i].fee >= out[j].fee
                   /\ out[i].fee = out[j].fee =>
                        PositionOf(arrivals, out[i].tx_id)
                            < PositionOf(arrivals, out[j].tx_id)
          /\ \A i \in 1..Len(out), k \in 1..Len(mempool') :
                0 - mempool'[k].neg_fee <= out[i].fee
          /\ IdsOf(mempool') = IdsOf(mempool) \ {out[i].tx_id : i \in 1..Len(out)}
          /\ {out[i].tx_id : i \in 1..Len(out)} \subseteq IdsOf(mempool)]_vars

\* the part of C28 that does not depend on the order of entry
C28_FeeOrderOnly ==
    [][(mret'.op = "get_block_transactions" /\ now' = now) =>
          LET out == mret'.out IN
          /\ \A i, j \in 1..Len(out) : i < j => out[i].fee >= out[j].fee
          /\ \A i, j \in 1..Len(out) :
                (i < j /\ out[i].fee = out[j].fee) =>
                    \E a, b \in 1..Len(mempool) :
                        /\ mempool[a].tx_id = out[i].tx_id
                        /\ mempool[b].tx_id = out[j].tx_id
                        /\ \/ mempool[a].ts < mempool[b].ts
                           \/ /\ mempool[a].ts = mempool[b].ts
                              /\ mempool[a].tx_id < mempool[b].tx_id
          /\ \A i \in 1..Len(out), k \in 1..Len(mempool') :
                0 - mempool'[k].neg_fee <= out[i].fee
          /\ IdsOf(mempool') = IdsOf(mempool) \ {out[i].tx_id : i \in 1..Len(out)}]_vars

\* the lowest fee in a mempool that is not empty
LowestFee(heap) == 0 - MaxNegFee(heap)

\* C29: the mempool never holds more than MEMPOOL_SIZE_LIMIT transactions;
\* when it is full, a new transaction is admitted only if its fee is
\* strictly higher than the lowest fee in the pool, and then exactly one
\* transaction of the lowest fee is evicted; otherwise the new transaction
\* is rejected and the pool is unchanged.
C29_MempoolBounded ==
    [][/\ Len(mempool') <= MempoolSizeLimit
       /\ (/\ mret'.op = "add_to_mempool"
           /\ now' = now
           /\ Len(mempool) >= MempoolSizeLimit) =>
              /\ mret'.ok =>
                   /\ mret'.fee > LowestFee(mempool)
                   /\ Len(mempool') = Len(mempool)
                   /\ \E id \in IdsOf(mempool) :
                         /\ IdsOf(mempool) \ IdsOf(mempool') = {id}
                         /\ \E k \in 1..Len(mempool) :
                               /\ mempool[k].tx_id = id
                               /\ 0 - mempool[k].neg_fee = LowestFee(mempool)
              /\ ~mret'.ok => mempool' = mempool]_vars

\* the bound of C29 alone
C29_SizeOnly == Len(mempool) <= MempoolSizeLimit

\* the number of submissions of a peer and a kind that the log has at time t
AdmittedAt(log, p, k, t) ==
    IF <<p, k, t>> \in DOMAIN log THEN log[<<p, k, t>>] ELSE 0

RECURSIVE AdmittedIn(_, _, _, _, _)
\* the number that the log has at the times from..to
AdmittedIn(log, p, k, from, to) ==
    IF from > to THEN 0
    ELSE AdmittedAt(log, p, k, to) + AdmittedIn(log, p, k, from, to - 1)

\* C30: for each peer, in every window of RATE_LIMIT_WINDOW seconds (the
\* times s+1..s+RateLimitWindow, for every s that keeps it within MaxTime)
\* check_rate_limit admits at most RATE_LIMIT_MAX_TX transactions and at
\* most RATE_LIMIT_MAX_OPTIMAE optimae; a submission is admitted exactly
\* when fewer than the limit of the same peer and the same kind were
\* admitted in the window that ends now, whatever other peers, the other
\* kind or older submissions did.
C30_RateLimit ==
    [][/\ \A p \in FeePeers, k \in BOOLEAN,
             s \in 0..(MaxTime - RateLimitWindow) :
             AdmittedIn(admitted', p, k, s + 1, s + RateLimitWindow)
                 <= LimitOf(k)
       /\ (mret'.op = "check_rate_limit" /\ now' = now) =>
             LET p == mret'.peer
                 k == mret'.is_optimae
                 before == AdmittedIn(admitted, p, k,
                                      now - RateLimitWindow + 1, now)
             IN /\ mret'.ok <=> before < LimitOf(k)
                /\ mret'.ok =>
                      AdmittedAt(admitted', p, k, now)
                          = AdmittedAt(admitted, p, k, now) + 1
                /\ \A q \in FeePeers, j \in BOOLEAN, t \in 1..MaxTime :
                      (<<q, j, t>> # <<p, k, now>> \/ ~mret'.ok) =>
                          AdmittedAt(admitted', q, j, t)
                              = AdmittedAt(admitted, q, j, t)]_vars

\* a peer whose window was full was admitted again once its submissions were
\* older than the window, while the other kind of the same peer was refused
C30_Witness ==
    /\ mret.op = "check_rate_limit"
    /\ mret.ok
    /\ ~mret.is_optimae
    /\ AdmittedIn(admitted, mret.peer, FALSE, 1, MaxTime) > RateLimitMaxTx
    /\ AdmittedIn(admitted, mret.peer, TRUE, now - RateLimitWindow + 1, now)
           = RateLimitMaxOptimae
    /\ \E q \in FeePeers : AdmittedIn(admitted, q, FALSE, 1, MaxTime) = 0

(***************************************************************************)
(* Properties of optimae staking                                           *)
(***************************************************************************)
\* C31: resolve_optimae refunds the whole stake recorded for the id when the
\* optimae is accepted, and the stake less the burn fraction when it is
\* rejected, adding that burn to total_burned, so that refund and burn add
\* up to the stake; a stake is resolved once: a later resolve_optimae of
\* the id, or one of an id without a stake, refunds 0 and burns nothing;
\* total_burned never decreases.
C31_StakeResolution ==
    [][/\ total_burned' >= total_burned
       /\ mret'.op = "resolve_optimae" =>
            LET id == mret'.id
                refund == mret'.out[1]
                burned == total_burned' - total_burned
            IN /\ id \notin DOMAIN staked'
               /\ IF id \in DOMAIN open_stake
                  THEN LET stake == open_stake[id] IN
                       /\ refund + burned = stake
                       /\ mret'.accepted => refund = stake /\ burned = 0
                       /\ ~mret'.accepted =>
                            /\ burned * BurnDen = stake * BurnNum
                            /\ refund * BurnDen = stake * (BurnDen - BurnNum)
                  ELSE refund = 0 /\ burned = 0]_vars

\* a rejected stake was burned in part after an earlier one was resolved,
\* and the other id has no stake
C31_Witness ==
    /\ mret.op = "resolve_optimae"
    /\ ~mret.accepted
    /\ mret.out = <<8>>
    /\ total_burned = 3
    /\ staked = << >>

(***************************************************************************)
(* Properties of the fork choice                                           *)
(***************************************************************************)
\* the order of the claim: consistent before inconsistent, then the higher
\* cumulative increment, then the higher count, then the lower tip hash
Better(x, y) ==
    IF x.is_checkpoint_consistent # y.is_checkpoint_consistent
    THEN x.is_checkpoint_consistent
    ELSE IF x.cumulative_increment # y.cumulative_increment
    THEN x.cumulative_increment > y.cumulative_increment
    ELSE IF x.optimae_accepted_count # y.optimae_accepted_count
    THEN x.optimae_accepted_count > y.optimae_accepted_count
    ELSE HashRank[x.tip_hash] < HashRank[y.tip_hash]

\* C32: select_best returns the candidate that is the maximum of the scored
\* candidates under the order consistent first, higher cumulative increment,
\* higher accepted count, lower tip hash; being the maximum of the set of
\* candidates, it does not depend on the order they were scored in.
C32_SelectBest ==
    sret.op = "select_best" /\ scored_candidates # << >> =>
        /\ sret.out \in SeqRange(scored_candidates)
        /\ \A c \in SeqRange(scored_candidates) :
              c = sret.out \/ Better(sret.out, c)

\* an inconsistent chain is not selected while a consistent one is scored
C32_ConsistentFirst ==
    /\ sret.op = "select_best"
    /\ scored_candidates # << >>
    /\ \E c \in SeqRange(scored_candidates) : c.is_checkpoint_consistent
    => sret.out.is_checkpoint_consistent

\* the selected chain is not below any candidate under ChainScore.__lt__
C32_NotBelowAny ==
    sret.op = "select_best" /\ scored_candidates # << >> =>
        \A c \in SeqRange(scored_candidates) : ~ScoreLess(sret.out, c)

(***************************************************************************)
(* Properties of the difficulty adjustment                                 *)
(***************************************************************************)
\* C33: after every on_new_block call, whatever the block timestamps, the
\* threshold lies between MIN_THRESHOLD and MAX_THRESHOLD and
\* blocks_in_epoch is below epoch_length: the epoch adjustment runs and
\* resets the counter exactly when the counter reaches epoch_length.
C33_ThresholdBounded ==
    [][dret'.op = "on_new_block" /\ now' = now =>
            /\ dret'.out = difficulty_state'.current_threshold
            /\ DifficultyMinThreshold <= difficulty_state'.current_threshold
            /\ difficulty_state'.current_threshold <= DifficultyMaxThreshold
            /\ difficulty_state'.blocks_in_epoch < EpochLength
            /\ difficulty_state'.blocks_in_epoch >= 0
            /\ dret'.epoch_closed <=>
                 difficulty_state.blocks_in_epoch + 1 = EpochLength
            /\ dret'.epoch_closed =>
                 /\ difficulty_state'.blocks_in_epoch = 0
                 /\ difficulty_state'.epoch_start_time
                      = difficulty_state'.last_block_time
            /\ ~dret'.epoch_closed =>
                 /\ difficulty_state'.blocks_in_epoch
                      = difficulty_state.blocks_in_epoch + 1
                 /\ difficulty_state'.total_adjustments
                      = difficulty_state.total_adjustments]_vars

\* an epoch was closed with the threshold at its floor after a timestamp
\* that went backwards
C33_Witness ==
    /\ dret.op = "on_new_block"
    /\ dret.epoch_closed
    /\ difficulty_state.total_adjustments = 1
    /\ difficulty_state.current_threshold = DifficultyMinThreshold
    /\ difficulty_state.last_block_time < TickUnits

\* C34: the threshold after the last block of an epoch is within a factor
\* of 4 of the threshold T at the start of that epoch: T/4 <= threshold <= 4T
C34_EpochFactor ==
    dret.op = "on_new_block" /\ dret.epoch_closed =>
        /\ dret.epoch_threshold <= MaxAdjustmentFactor * dret.out
        /\ dret.out <= MaxAdjustmentFactor * dret.epoch_threshold

(***************************************************************************)
(* Properties of the task queue                                            *)
(***************************************************************************)
StatusRank(status) ==
    CASE status = "pending" -> 0 [] status = "claimed" -> 1
      [] status = "completed" -> 2 [] OTHER -> 3

\* C35: claim succeeds only on a pending task and complete only on a claimed
\* one, so that through the operations of the queue the status of a task
\* only moves pending -> claimed -> completed, a task is claimed by at most
\* one evaluator, and a failed claim or complete leaves the task unchanged.
C35_TaskLifecycle ==
    [][/\ tret'.op = "claim" /\ tret'.out # None =>
            tret'.task_id \in DOMAIN tasks /\ tasks[tret'.task_id].status = "pending"
       /\ tret'.op = "complete" /\ tret'.out # None =>
            tret'.task_id \in DOMAIN tasks /\ tasks[tret'.task_id].status = "claimed"
       /\ tret'.op \in {"claim", "complete"} /\ tret'.out = None => tasks' = tasks
       /\ \A id \in DOMAIN tasks :
            /\ id \in DOMAIN tasks'
            /\ \/ tasks'[id].status = tasks[id].status
               \/ StatusRank(tasks'[id].status) = StatusRank(tasks[id].status) + 1
            /\ tasks[id].evaluator_id # None =>
                 tasks'[id].evaluator_id = tasks[id].evaluator_id]_vars

\* the same for the steps of claim and complete alone
C35_ClaimAndComplete ==
    [][tret'.op \in {"claim", "complete"} =>
        /\ tret'.op = "claim" /\ tret'.out # None =>
             tret'.task_id \in DOMAIN tasks /\ tasks[tret'.task_id].status = "pending"
        /\ tret'.op = "complete" /\ tret'.out # None =>
             tret'.task_id \in DOMAIN tasks /\ tasks[tret'.task_id].status = "claimed"
        /\ tret'.out = None => tasks' = tasks
        /\ \A id \in DOMAIN tasks :
             /\ id \in DOMAIN tasks'
             /\ \/ tasks'[id].status = tasks[id].status
                \/ StatusRank(tasks'[id].status) = StatusRank(tasks[id].status) + 1
             /\ tasks[id].evaluator_id # None =>
                  tasks'[id].evaluator_id = tasks[id].evaluator_id]_vars

\* C40: when two evaluators call claim on the same pending task at once, at
\* most one call returns the task, and the evaluator_id of the task is that
\* of the single winner.
C40_SingleWinner ==
    \A e1 \in TaskEvaluators, e2 \in TaskEvaluators :
        /\ claimers[e1].pc = "done"
        /\ claimers[e1].out # None
        /\ e2 # e1
        => /\ ~(claimers[e2].pc = "done" /\ claimers[e2].out = claimers[e1].out)
           /\ claimers[e2].pc = "done" =>
                tasks[claimers[e1].out].evaluator_id = e1

(***************************************************************************)
(* Further properties of the payment channels and the quorum               *)
(***************************************************************************)
RECURSIVE LockedDeposits(_)
LockedDeposits(keys) ==
    IF keys = << >> THEN 0
    ELSE (IF channels[Head(keys)].state # "closed"
          THEN channels[Head(keys)].deposit ELSE 0)
         + LockedDeposits(Tail(keys))

\* C36: in every reachable state total_locked is the sum of the deposits of
\* the channels that are not closed.
C36_TotalLocked ==
    total_locked = LockedDeposits(channel_keys)

\* of two channels one was settled by cleanup_expired and the other, then
\* disputed, by resolve_disputes, and nothing is locked any more
C36_Witness ==
    /\ ret.op = "resolve_disputes"
    /\ ret.n = 1
    /\ DOMAIN channels = LockedChannelIds
    /\ \A cid \in LockedChannelIds : channels[cid].state = "closed"
    /\ \E cid \in LockedChannelIds : channels[cid].disputed_by = ""
    /\ total_locked = 0

\* C37: once evaluate_quorum has marked an optimae decided, no later
\* select_evaluators, add_vote or evaluate_quorum call changes its decided
\* flag, its accepted flag or its votes, until cleanup_decided removes it.
C37_DecisionStable ==
    [][qret'.op \in {"select_evaluators", "add_vote", "evaluate_quorum"} =>
        \A o \in DOMAIN pending :
            pending[o].decided =>
                /\ o \in DOMAIN pending'
                /\ pending'[o].decided
                /\ pending'[o].accepted = pending[o].accepted
                /\ pending'[o].votes = pending[o].votes]_vars

\* the same for the steps of add_vote and evaluate_quorum alone
C37_StableUnderVotes ==
    [][qret'.op \in {"add_vote", "evaluate_quorum"} =>
        \A o \in DOMAIN pending :
            pending[o].decided =>
                /\ o \in DOMAIN pending'
                /\ pending'[o].decided
                /\ pending'[o].accepted = pending[o].accepted
                /\ pending'[o].votes = pending[o].votes]_vars

(***************************************************************************)
(* The score of a chain of generated blocks                                *)
(***************************************************************************)
RECURSIVE SumAbsIncrements(_)
SumAbsIncrements(txs) ==
    IF txs = << >> THEN 0
    ELSE (IF Head(txs).tx_type = "optimae_accepted"
          THEN Abs(Head(txs).payload) ELSE 0)
         + SumAbsIncrements(Tail(txs))

RECURSIVE ChainIncrements(_)
ChainIncrements(bs) ==
    IF bs = << >> THEN 0
    ELSE SumAbsIncrements(Head(bs).transactions) + ChainIncrements(Tail(bs))

RECURSIVE ChainAccepted(_)
ChainAccepted(bs) ==
    IF bs = << >> THEN 0
    ELSE Len(SelectSeq(Head(bs).transactions,
                       LAMBDA tx : tx.tx_type = "optimae_accepted"))
         + ChainAccepted(Tail(bs))

\* C38: for a chain of blocks produced by record_optimae and generate_block,
\* the cumulative_increment that score_chain computes is the sum of the
\* absolute increments of the optimae_accepted transactions of the blocks.
C38_ScoreIsSumOfIncrements ==
    sret.op = "score_chain" =>
        sret.out.cumulative_increment
            = ChainIncrements(SubSeq(blocks, 1, sret.n))

\* the count of accepted optimae of the score is that of the blocks
C38_ScoreCountsAccepted ==
    sret.op = "score_chain" =>
        sret.out.optimae_accepted_count
            = ChainAccepted(SubSeq(blocks, 1, sret.n))

(***************************************************************************)
(* The frame of a rejected add_to_mempool                                  *)
(***************************************************************************)
\* the number of submissions of peer p that count against its limit at time t
QuotaUsed(tracker, p, t) ==
    IF p \in DOMAIN tracker THEN Len(Recent(tracker[p], t - RateLimitWindow))
    ELSE 0

\* C39: whenever add_to_mempool returns failure (fee too low, rate limited,
\* or mempool full and fee too low) the contents of the mempool and the
\* rate-limit quota of the submitting peer are what they were before the call.
C39_RejectedLeavesUnchanged ==
    [][mret'.op = "add_to_mempool" /\ ~mret'.ok /\ now' = now =>
        /\ mempool' = mempool
        /\ \A p \in FeePeers :
             /\ QuotaUsed(rate_tracker', p, now) = QuotaUsed(rate_tracker, p, now)
             /\ QuotaUsed(optimae_tracker', p, now)
                  = QuotaUsed(optimae_tracker, p, now)]_vars

\* a rejected add_to_mempool leaves the contents of the mempool unchanged
C39_MempoolUnchanged ==
    [][mret'.op = "add_to_mempool" /\ ~mret'.ok /\ now' = now =>
        mempool' = mempool]_vars

\* a call rejected for its fee or by the rate limit leaves the quota unchanged
C39_QuotaUnchangedUnlessFull ==
    [][/\ mret'.op = "add_to_mempool"
       /\ ~mret'.ok
       /\ now' = now
       /\ mret'.reason # "Mempool full and fee too low"
       => \A p \in FeePeers :
             /\ QuotaUsed(rate_tracker', p, now) = QuotaUsed(rate_tracker, p, now)
             /\ QuotaUsed(optimae_tracker', p, now)
                  = QuotaUsed(optimae_tracker, p, now)]_vars

====
